---- MODULE Spec2Model ----
(***************************************************************************)
(* Playback synchronisation and queue advancement of one room of the       *)
(* habbodj server (server/src/socket).  One room is modelled: the          *)
(* persisted Room document, the module-level maps of timerService.ts       *)
(* (roomTimers, roomSyncIntervals, roomPlaybackState), the timeouts the    *)
(* Node event loop holds, and the handler invocations that are suspended   *)
(* at an await of the document store.                                      *)
(*                                                                         *)
(* Scheduling.  A handler runs without preemption from one await to the    *)
(* next; each action below is one such run.  A findOne is answered with    *)
(* the document as it is stored when the handler's continuation runs (the  *)
(* store's answers are handled in the order the store executed the         *)
(* requests).  A save is a request in flight (pc "..._save"): the store    *)
(* applies it at some later step (DbWrite), writing the whole document the *)
(* handler holds, and the handler continues after that.                    *)
(*                                                                         *)
(* Time is counted in whole seconds.  A store round trip takes             *)
(* milliseconds, so the clock moves on only while no invocation is         *)
(* suspended, and a timeout that is due fires before the clock moves on.   *)
(***************************************************************************)
EXTENDS Integers, Sequences, FiniteSets, Bags, TLC

\* ---- bounds of the model ------------------------------------------------
MaxTime == 3
MaxItems == 2
MaxCmds == 2
MaxProcs == 2
MaxRoleCmds == 4

\* ---- program constants --------------------------------------------------
FALLBACK == 240

\* ---- inputs ---------------------------------------------------------------
Owner == "u1"
Users == {"u1", "u2"}
Everyone == Users \cup {"u3"}
Passwords == {"", "pw"}
VoteTypes == {"up", "down"}
Durations == {1, 2}
Positions == {0, 1}

VARIABLES
  now,                \* Date.now(), in seconds
  store,              \* the persisted Room document of the room
  roomTimers,         \* timerService.roomTimers.get(slug): a timeout id, 0 = no entry
  timeouts,           \* timeouts scheduled in the event loop, not yet fired or cleared
  roomPlaybackState,  \* timerService.roomPlaybackState entry of the room
  roomSyncIntervals,  \* TRUE iff roomSyncIntervals has an interval for the room
  procs,              \* bag of the handler invocations suspended at an await
  issued,             \* number of addVideo commands received so far
  cmds,               \* number of other commands received so far
  hist,               \* history, read by no handler, and the number of commands of the run
  inRoom,             \* the users whose sockets are joined to the room
  sent,               \* what the last step emitted, of the events mediaUpdate,
                      \* privacyUpdated, moderatorsUpdated, kicked, userLeft,
                      \* roomDeleted and error, and of the nowPlaying and
                      \* queueUpdated of advanceQueue
  player              \* the VideoPlayer component of one client of the room

vars == <<now, store, roomTimers, timeouts, roomPlaybackState,
          roomSyncIntervals, procs, issued, cmds, hist, inRoom, sent, player>>

\* ---- data ---------------------------------------------------------------
Max(a, b) == IF a >= b THEN a ELSE b

\* currentVideo = null
NoVideo == [url |-> 0, title |-> 0, duration |-> 0, addedBy |-> "", startedAt |-> 0]

\* findOne() = null.  version is the document's __v, the counter of the
\* changes made to its arrays.
NoRoom == [exists |-> FALSE, creatorId |-> "", moderators |-> <<>>,
           isPrivate |-> FALSE, password |-> <<>>,
           currentVideo |-> NoVideo, queue |-> <<>>, version |-> 0]

\* a public Room as POST /api/rooms creates it; password <<>> is undefined
NewRoom == [exists |-> TRUE, creatorId |-> Owner, moderators |-> <<>>,
            isPrivate |-> FALSE, password |-> <<>>,
            currentVideo |-> NoVideo, queue |-> <<>>, version |-> 0]

\* the VideoPlayer of a client as it is mounted (part_005, lines 31-40):
\* canControl and mediaSync are props (NoSync is null), ready the state,
\* isSyncing and lastProgress the refs; clientTime and paused are what the
\* embedded player holds
NoSync == [currentTime |-> 0 - 1, paused |-> FALSE]
NoPlayer == [canControl |-> FALSE, ready |-> FALSE, clientTime |-> 0,
             paused |-> FALSE, isSyncing |-> FALSE, lastProgress |-> 0,
             mediaSync |-> NoSync]

\* roomPlaybackState.get(slug) === undefined
NoState == [present |-> FALSE, isPaused |-> FALSE, pausedAt |-> 0]

getPlaybackState == IF roomPlaybackState.present
                    THEN roomPlaybackState
                    ELSE [present |-> FALSE, isPaused |-> FALSE, pausedAt |-> 0]

\* videoValidator.fetchVideoInfo: the title comes from oEmbed (here: named
\* after the url), the duration is 0 on every path
fetchVideoInfo(u) == [url |-> u, title |-> u, duration |-> 0]

\* the playback position the server computes (the interval callback of
\* startSyncInterval, lines 35-44): the paused position, or the time since startedAt
computePosition(room, state, t) ==
  IF state.isPaused THEN state.pausedAt ELSE t - room.currentVideo.startedAt

\* the elements of an array
Members(seq) == {seq[i] : i \in 1..Len(seq)}

\* the urls of the queued items of a room
QueueUrls(room) == {room.queue[i].url : i \in 1..Len(room.queue)}

\* the urls that have left the queue of a room that was filled in the order
\* of the urls and holds no item older than its current video
Left(room) == IF room.currentVideo = NoVideo THEN {} ELSE 1..room.currentVideo.url

\* isHostOrMod that lets everyone pass
isHostOrModAnyone(room, userId) == TRUE

isHostOrMod(room, userId) ==
  room.creatorId = userId \/ userId \in Members(room.moderators)

\* An invocation: its handler (kind), where it is suspended (pc), the
\* document it holds (room), its arguments, and history: origin (the video
\* that was current when the trigger was received), base and at (the document
\* and the time its last continuation started from), replaced and popped
\* (what advanceQueue found current and at the head of the queue).
Proc == [kind |-> "none", pc |-> "new", room |-> NoRoom, uid |-> "", dur |-> 0,
         idx |-> 0, type |-> "", target |-> "", pausedAt |-> 0, currentTime |-> 0, paused |-> FALSE, origin |-> 0,
         replaced |-> 0, popped |-> 0, base |-> NoRoom, at |-> 0]

InFlight == BagToSet(procs)

\* ---- messages ------------------------------------------------------------
\* socket.emit (to one user's sockets) and io.to(room).emit (to the sockets
\* joined to the room): the event, the users who receive it, the payload
Emit(event, to, payload) == [event |-> event, to |-> to, payload |-> payload]
ToSocket(userId) == {userId}
ToRoom == inRoom

\* ---- timers -------------------------------------------------------------
\* The timer state the functions of timerService.ts work on: the entry of the
\* roomTimers map (a timeout id) and the timeouts the event loop still holds.
Timers == [entry |-> roomTimers, out |-> timeouts]

\* timerService.stopVideoTimer: clearTimeout of the map's entry, delete the entry
stopVideoTimer(tm) ==
  IF tm.entry # 0
  THEN [entry |-> 0, out |-> {t \in tm.out : t.id # tm.entry}]
  ELSE tm

\* startVideoTimer without the cancellation of the prior timer
startVideoTimerNoCancel(tm, durationSeconds, video) ==
  LET d == IF durationSeconds <= 0 THEN FALLBACK ELSE durationSeconds
      used == {t.id : t \in tm.out}
      id == CHOOSE i \in 1..(Cardinality(used) + 1) : i \notin used
  IN [entry |-> id,
      out |-> tm.out \cup {[id |-> id, deadline |-> now + d, dur |-> d, video |-> video,
                            cancelled |-> 0]}]

\* timerService.startVideoTimer: cancel the prior timer, substitute the
\* fallback for an unknown duration, schedule, record the handle in the map.
\* History in the timeout: video, the url of the video it is scheduled for,
\* and cancelled, the number of timeouts its scheduling cancelled.
startVideoTimer(tm, durationSeconds, video) ==
  LET st == stopVideoTimer(tm)
      d == IF durationSeconds <= 0 THEN FALLBACK ELSE durationSeconds
      used == {t.id : t \in st.out}
      id == CHOOSE i \in 1..(Cardinality(used) + 1) : i \notin used
  IN [entry |-> id,
      out |-> st.out \cup {[id |-> id, deadline |-> now + d, dur |-> d, video |-> video,
                            cancelled |-> Cardinality(tm.out) - Cardinality(st.out)]}]

\* ---- the persisted document, as the handlers change it ---------------------
\* advanceQueue that leaves currentVideo alone when the queue is empty
advanceDocKeepsCurrent(room, t) ==
  IF Len(room.queue) = 0
  THEN room
  ELSE LET nextVideo == Head(room.queue)
       IN [room EXCEPT !.queue = Tail(@),
                       !.currentVideo = [url |-> nextVideo.url,
                                         title |-> nextVideo.title,
                                         duration |-> nextVideo.duration,
                                         addedBy |-> nextVideo.addedBy,
                                         startedAt |-> t]]

\* advanceQueue, lines 130-146: the document it saves
advanceDoc(room, t) ==
  IF Len(room.queue) = 0
  THEN [room EXCEPT !.currentVideo = NoVideo]
  ELSE LET nextVideo == Head(room.queue)
       IN [room EXCEPT !.queue = Tail(@),
                       !.currentVideo = [url |-> nextVideo.url,
                                         title |-> nextVideo.title,
                                         duration |-> nextVideo.duration,
                                         addedBy |-> nextVideo.addedBy,
                                         startedAt |-> t]]

\* advanceQueue that starts a timer for every dequeued item
advanceStartsTimerAlways(nextVideo) == TRUE

\* advanceQueue that starts a timer for no dequeued item
advanceStartsTimerNever(nextVideo) == FALSE

\* advanceQueue that goes on without a room
advanceReturnsNever(room) == FALSE

\* advanceQueue, line 126: if (!room) return
advanceReturns(room) == ~room.exists

\* advanceQueue, line 152: whether a timer is started for the dequeued item
advanceStartsTimer(nextVideo) == nextVideo.duration > 0

\* addVideo, lines 32-41: the item pushed on the queue
addVideoDoc(room, info, userId) ==
  [room EXCEPT !.queue = Append(@, [url |-> info.url, title |-> info.title,
                                    duration |-> info.duration, addedBy |-> userId,
                                    upvotes |-> <<>>, downvotes |-> <<>>])]

\* vote that leaves the user's id in the opposite array
voteDocNoRemove(room, videoIndex, userId, type) ==
  LET video == room.queue[videoIndex + 1]
  IN [room EXCEPT !.queue[videoIndex + 1] =
        [video EXCEPT !.upvotes = IF type = "up" THEN Append(@, userId) ELSE @,
                      !.downvotes = IF type = "up" THEN @ ELSE Append(@, userId)]]

\* vote that does not remove the user's id from the array it pushes it on
voteDocKeepsOwn(room, videoIndex, userId, type) ==
  LET video == room.queue[videoIndex + 1]
      ups == SelectSeq(video.upvotes, LAMBDA id : id # userId)
      downs == SelectSeq(video.downvotes, LAMBDA id : id # userId)
  IN [room EXCEPT !.queue[videoIndex + 1] =
        [video EXCEPT !.upvotes = IF type = "up" THEN Append(@, userId) ELSE ups,
                      !.downvotes = IF type = "up" THEN downs ELSE Append(@, userId)]]

\* vote that moves the item voted up to the head of the queue
voteDocReorders(room, videoIndex, userId, type) ==
  LET video == room.queue[videoIndex + 1]
      ups == SelectSeq(video.upvotes, LAMBDA id : id # userId)
      downs == SelectSeq(video.downvotes, LAMBDA id : id # userId)
      item == [video EXCEPT !.upvotes = IF type = "up" THEN Append(ups, userId) ELSE ups,
                            !.downvotes = IF type = "up" THEN downs ELSE Append(downs, userId)]
      rest == SelectSeq(room.queue, LAMBDA v : v.url # video.url)
  IN IF type = "up"
     THEN [room EXCEPT !.queue = <<item>> \o rest]
     ELSE [room EXCEPT !.queue[videoIndex + 1] = item]

\* vote, lines 78-89: videoIndex is 0-based and already bounds-checked
voteDoc(room, videoIndex, userId, type) ==
  LET video == room.queue[videoIndex + 1]
      ups == SelectSeq(video.upvotes, LAMBDA id : id # userId)
      downs == SelectSeq(video.downvotes, LAMBDA id : id # userId)
  IN [room EXCEPT !.queue[videoIndex + 1] =
        [video EXCEPT !.upvotes = IF type = "up" THEN Append(ups, userId) ELSE ups,
                      !.downvotes = IF type = "up" THEN downs ELSE Append(downs, userId)]]

\* removeVideo that takes out every element from videoIndex on
removeVideoDocFrom(room, videoIndex) ==
  [room EXCEPT !.queue = SubSeq(@, 1, videoIndex)]

\* removeVideo, line 472: splice(videoIndex, 1), videoIndex 0-based and
\* already bounds-checked
removeVideoDoc(room, videoIndex) ==
  [room EXCEPT !.queue = SubSeq(@, 1, videoIndex) \o SubSeq(@, videoIndex + 2, Len(@))]

\* bcrypt.hash: the stored hash is not the password
bcryptHash(password) == <<"bcrypt", password>>

\* promoteMod, line 628: moderators.push
promoteDoc(room, targetUserId) == [room EXCEPT !.moderators = Append(@, targetUserId)]

\* demoteMod that leaves the array as it is
demoteDocKeeps(room, targetUserId) == room

\* demoteMod, lines 651-657: splice(indexOf(targetUserId), 1) of a user
\* who is in the array
demoteDoc(room, targetUserId) ==
  LET mods == room.moderators
      idx == CHOOSE i \in 1..Len(mods) :
               mods[i] = targetUserId /\ \A j \in 1..(i - 1) : mods[j] # targetUserId
  IN [room EXCEPT !.moderators = SubSeq(mods, 1, idx - 1) \o SubSeq(mods, idx + 1, Len(mods))]

\* togglePrivacy, lines 543-548; the empty string stands for a password
\* that is missing or empty
togglePrivacyDoc(room, isPrivate, password) ==
  [room EXCEPT !.isPrivate = isPrivate,
               !.password = IF isPrivate /\ password # "" THEN bcryptHash(password)
                            ELSE IF ~isPrivate THEN <<>> ELSE @]

\* handleDurationReport that ignores the time already played
reportRemainingFull(room, durationSeconds, t) == Max(durationSeconds, 1)

\* handleDurationReport, lines 178-179: the delay of the restarted timer
reportRemaining(room, durationSeconds, t) ==
  Max(durationSeconds - (t - room.currentVideo.startedAt), 1)

\* handleDurationReport that restarts the timer of a paused room too
reportRestartsAlways(paused) == TRUE

\* handleDurationReport, lines 166-174: the report received while the room
\* is paused returns after the save, without the restart of lines 184-185
reportRestarts(paused) == ~paused

\* resumePlayback that goes on when the room is not paused
resumeReturnsNever(state) == FALSE

\* resumePlayback (unnamed/part_001, lines 157-158): if (!state.isPaused) return
resumeReturns(state) == ~state.isPaused

\* resumePlayback that starts the video over
resumeStartedAtNow(t, pausedAt) == t

\* resumePlayback (unnamed/part_001, line 164): the startedAt it stores
resumeStartedAt(t, pausedAt) == t - pausedAt

\* handleHostMediaUpdate that restarts the timer with the whole duration
mediaRemainingFull(room, currentTime) == Max(room.currentVideo.duration, 1)

\* handleHostMediaUpdate, line 88: the delay of the restarted timer
mediaRemaining(room, currentTime) ==
  Max(room.currentVideo.duration - currentTime, 1)

\* ---- bookkeeping of the suspended invocations ---------------------------
Spawn(r) == procs' = procs (+) SetToBag({r})
Become(p, q) == procs' = (procs (-) SetToBag({p})) (+) SetToBag({q})
Goto(p, label) == Become(p, [p EXCEPT !.pc = label])
Finish(p) == procs' = procs (-) SetToBag({p})
CanReceive == BagCardinality(procs) < MaxProcs
CanCommand == CanReceive /\ cmds < hist.budget

\* history: the commands that were refused, and for whom
Refuse(cmd, userId) == hist' = [hist EXCEPT !.refused = @ \cup {[cmd |-> cmd, uid |-> userId]}]

Init ==
  /\ now = 0
  /\ store = NewRoom
  /\ roomTimers = 0
  /\ timeouts = {}
  /\ roomPlaybackState = NoState
  /\ roomSyncIntervals = FALSE
  /\ procs = EmptyBag
  /\ issued = 0
  /\ cmds = 0
  /\ hist = [advanced |-> {}, demoted |-> {}, refused |-> {}, unhandled |-> {}, gone |-> Left(store), budget |-> MaxCmds]
  /\ inRoom = Users
  /\ sent = {}
  /\ player = NoPlayer

\* room.save() of a suspended invocation sends the changes the handler made
\* to its copy, not the copy.  A change that replaces an array (the shift of
\* advanceQueue, the splice of removeVideo and demoteMod, the upvotes and
\* downvotes vote assigns) is written only on the version of the document
\* the handler read; a push (addVideo, promoteMod) is appended to the array
\* the store holds; both count as a change of the arrays.  The other
\* changes are written whatever the version: currentVideo as a whole
\* (advanceQueue), isPrivate and password (togglePrivacy), startedAt
\* (handleHostMediaUpdate, resumePlayback) and duration
\* (handleDurationReport) of the current video, which cannot be set on a
\* stored room that has no current video.  SaveOk: the save is applied;
\* otherwise save() rejects and the document is not changed.
VersionedNever(p) == FALSE

Versioned(p) ==
  \/ p.pc \in {"vote_save", "rm_save", "dm_save"}
  \/ p.pc = "adv_save" /\ p.popped # 0

SaveOk(p) ==
  /\ store.exists
  /\ Versioned(p) => store.version = p.room.version
  /\ p.pc \in {"hmu_save", "rp_save", "rd_save"} => store.currentVideo # NoVideo

\* save() that writes the whole copy the handler holds, into the store or
\* as a new document when the store has none
SavedUpsert(p) == [p.room EXCEPT !.version = store.version + 1]

\* save() that writes the whole copy the handler holds
SavedWholeCopy(p) ==
  IF ~SaveOk(p) THEN store ELSE [p.room EXCEPT !.version = store.version + 1]

Saved(p) ==
  IF ~SaveOk(p) THEN store
  ELSE CASE p.pc = "adv_save" /\ p.popped # 0 ->
              [store EXCEPT !.queue = p.room.queue, !.currentVideo = p.room.currentVideo,
                            !.version = @ + 1]
         [] p.pc = "adv_save" /\ p.popped = 0 ->
              [store EXCEPT !.currentVideo = p.room.currentVideo]
         [] p.pc \in {"vote_save", "rm_save"} ->
              [store EXCEPT !.queue = p.room.queue, !.version = @ + 1]
         [] p.pc = "add_save" ->
              [store EXCEPT !.queue = Append(@, p.room.queue[Len(p.room.queue)]),
                            !.version = @ + 1]
         [] p.pc = "pm_save" ->
              [store EXCEPT !.moderators = Append(@, p.room.moderators[Len(p.room.moderators)]),
                            !.version = @ + 1]
         [] p.pc = "dm_save" ->
              [store EXCEPT !.moderators = p.room.moderators, !.version = @ + 1]
         [] p.pc = "tp_save" ->
              [store EXCEPT !.isPrivate = p.room.isPrivate, !.password = p.room.password]
         [] p.pc \in {"hmu_save", "rp_save"} ->
              [store EXCEPT !.currentVideo.startedAt = p.room.currentVideo.startedAt]
         [] p.pc = "rd_save" ->
              [store EXCEPT !.currentVideo.duration = p.room.currentVideo.duration]

\* the saves awaited inside a try block: addVideo, advanceQueue, vote
Catches(p) == p.pc \in {"add_save", "adv_save", "vote_save"}

\* ---- the document store -------------------------------------------------
\* The store answers a save in flight.  Applied: the invocation goes on
\* after its await; vote, handleDurationReport, removeVideo, togglePrivacy,
\* promoteMod and demoteMod do nothing after their save but broadcast or
\* return, so their invocation ends here.  Rejected: the invocation ends;
\* addVideo and vote emit an error from their catch block, advanceQueue
\* logs, and the other handlers have no catch block, so the rejection is
\* unhandled.
\* History: hist.demoted, the users whose demotion is the last change of
\* their role that has been saved; hist.unhandled, the handlers whose
\* rejection nothing caught; hist.gone, the urls of the items a save has
\* taken out of the stored queue.
DbWrite(p) ==
  /\ p.pc \in {"add_save", "adv_save", "vote_save", "hmu_save", "rd_save",
              "rm_save", "tp_save", "pm_save", "dm_save", "rp_save"}
  /\ store' = Saved(p)
  /\ IF SaveOk(p)
     THEN CASE p.pc = "add_save" -> Goto(p, "add_saved")
            [] p.pc = "adv_save" -> Goto(p, "adv_saved")
            [] p.pc = "hmu_save" -> Goto(p, "hmu_saved")
            [] p.pc = "rp_save" -> Goto(p, "rp_saved")
            [] OTHER -> Finish(p)
     ELSE Finish(p)
  /\ sent' = CASE ~SaveOk(p) /\ p.pc = "add_save" ->
                  {Emit("error", ToSocket(p.uid), "Failed to add video")}
              [] ~SaveOk(p) /\ p.pc = "vote_save" ->
                  {Emit("error", ToSocket(p.uid), "Failed to vote")}
              [] SaveOk(p) /\ p.pc = "tp_save" ->
                  {Emit("privacyUpdated", ToRoom, [isPrivate |-> p.room.isPrivate])}
              [] SaveOk(p) /\ p.pc \in {"pm_save", "dm_save"} ->
                  {Emit("moderatorsUpdated", ToRoom, [moderators |-> p.room.moderators])}
              [] OTHER -> {}
  /\ hist' = CASE ~SaveOk(p) /\ ~Catches(p) ->
                  [hist EXCEPT !.unhandled = @ \cup {p.kind}]
              [] SaveOk(p) /\ p.pc = "dm_save" ->
                  [hist EXCEPT !.demoted = @ \cup {p.target}]
              [] SaveOk(p) /\ p.pc = "pm_save" ->
                  [hist EXCEPT !.demoted = @ \ {p.target}]
              [] OTHER ->
                  [hist EXCEPT !.gone = @ \cup (QueueUrls(store) \ QueueUrls(Saved(p)))]
  /\ UNCHANGED <<inRoom, now, roomTimers, timeouts, roomPlaybackState,
                 roomSyncIntervals, issued, cmds>>
  /\ UNCHANGED player

\* ---- advanceQueue (timerService.ts) ----------------------------------------
\* advanceQueue from the answer of its findOne up to room.save() (lines 125-147)
AdvanceCont(p) ==
  /\ p.pc = "adv_find"
  /\ IF advanceReturns(store)
     THEN /\ Finish(p)
          /\ UNCHANGED <<roomPlaybackState, roomSyncIntervals, hist>>
     ELSE /\ roomPlaybackState' = NoState
          /\ roomSyncIntervals' = FALSE
          /\ Become(p, [p EXCEPT !.pc = "adv_save",
                                 !.base = store,
                                 !.at = now,
                                 !.room = advanceDoc(store, now),
                                 !.replaced = store.currentVideo.url,
                                 !.popped = IF Len(store.queue) = 0 THEN 0
                                            ELSE Head(store.queue).url])
          /\ hist' = IF p.kind \in {"fire", "skip"} /\ p.origin # 0
                        /\ store.currentVideo.url = p.origin
                     THEN [hist EXCEPT !.advanced =
                             @ \cup {[kind |-> p.kind, origin |-> p.origin]}]
                     ELSE hist
  /\ UNCHANGED <<inRoom, now, store, roomTimers, timeouts, issued, cmds>>
  /\ sent' = {}
  /\ UNCHANGED player

\* advanceQueue after its save (lines 149-158, or 133-136 on an empty queue):
\* nowPlaying and queueUpdated are broadcast on both paths
AdvanceDone(p) ==
  /\ p.pc = "adv_saved"
  /\ LET nextVideo == p.room.currentVideo
         tm == IF advanceStartsTimer(nextVideo)
               THEN startVideoTimer(Timers, nextVideo.duration, nextVideo.url)
               ELSE Timers
     IN IF p.popped = 0
        THEN UNCHANGED <<roomTimers, timeouts, roomSyncIntervals>>
        ELSE /\ roomTimers' = tm.entry
             /\ timeouts' = tm.out
             /\ roomSyncIntervals' = TRUE
  /\ Finish(p)
  /\ UNCHANGED <<inRoom, now, store, roomPlaybackState, issued, cmds, hist>>
  /\ sent' = {Emit("nowPlaying", ToRoom, [video |-> p.room.currentVideo]),
              Emit("queueUpdated", ToRoom, [queue |-> p.room.queue])}
  /\ UNCHANGED player

\* the callback of setTimeout in startVideoTimer (lines 106-109), up to the
\* findOne of advanceQueue
Fire(t) ==
  /\ CanReceive
  /\ t.deadline <= now
  /\ timeouts' = timeouts \ {t}
  /\ roomTimers' = 0
  /\ Spawn([Proc EXCEPT !.kind = "fire", !.pc = "adv_find", !.origin = t.video])
  /\ UNCHANGED <<inRoom, now, store, roomPlaybackState, roomSyncIntervals, issued, cmds, hist>>
  /\ sent' = {}
  /\ UNCHANGED player

\* ---- addVideo (queueHandlers.ts) -----------------------------------------
\* addVideo up to room.save() (lines 8-42), given what the lookup returned
AddVideoInfo(userId, info) ==
  /\ CanReceive
  /\ userId \in inRoom
  /\ issued < MaxItems
  /\ store.exists
  /\ issued' = issued + 1
  /\ Spawn([Proc EXCEPT !.kind = "add", !.pc = "add_save", !.uid = userId,
                        !.base = store, !.at = now,
                        !.room = addVideoDoc(store, info, userId)])
  /\ UNCHANGED <<inRoom, now, store, roomTimers, timeouts, roomPlaybackState,
                 roomSyncIntervals, cmds, hist>>
  /\ sent' = {}
  /\ UNCHANGED player

\* addVideo of the next unused url
AddVideo(userId) == AddVideoInfo(userId, fetchVideoInfo(issued + 1))

\* addVideo after its save (lines 44-51): start the item if nothing is playing
AddVideoSaved(p) ==
  /\ p.pc = "add_saved"
  /\ IF p.room.currentVideo = NoVideo
     THEN Goto(p, "adv_find")
     ELSE Finish(p)
  /\ UNCHANGED <<inRoom, now, store, roomTimers, timeouts, roomPlaybackState,
                 roomSyncIntervals, issued, cmds, hist>>
  /\ sent' = {}
  /\ UNCHANGED player

\* ---- vote (queueHandlers.ts) ---------------------------------------------
\* vote up to room.save() (lines 59-91); a rejected index changes nothing
Vote(userId, videoIndex, type) ==
  /\ CanCommand
  /\ userId \in inRoom
  /\ store.exists
  /\ ~(videoIndex < 0 \/ videoIndex >= Len(store.queue))
  /\ cmds' = cmds + 1
  /\ Spawn([Proc EXCEPT !.kind = "vote", !.pc = "vote_save", !.uid = userId,
                        !.base = store, !.idx = videoIndex, !.type = type,
                        !.room = voteDoc(store, videoIndex, userId, type)])
  /\ UNCHANGED <<inRoom, now, store, roomTimers, timeouts, roomPlaybackState,
                 roomSyncIntervals, issued, hist>>
  /\ sent' = {}
  /\ UNCHANGED player

\* vote with an index outside the queue it has read (lines 73-76)
VoteInvalid(userId, videoIndex, type) ==
  /\ CanCommand
  /\ userId \in inRoom
  /\ store.exists
  /\ videoIndex < 0 \/ videoIndex >= Len(store.queue)
  /\ cmds' = cmds + 1
  /\ sent' = {Emit("error", ToSocket(userId), "Invalid video index")}
  /\ Refuse("vote", userId)
  /\ UNCHANGED <<inRoom, now, store, roomTimers, timeouts, roomPlaybackState,
                 roomSyncIntervals, procs, issued>>
  /\ UNCHANGED player

\* ---- reportDuration (queueHandlers.ts, timerService.handleDurationReport) --
\* the handler and handleDurationReport up to Room.findOne (lines 100-108,
\* 164-168, 176); a duration that is not positive changes nothing
ReportDuration(duration) ==
  /\ CanCommand
  /\ inRoom # {}
  /\ duration > 0
  /\ cmds' = cmds + 1
  /\ Spawn([Proc EXCEPT !.kind = "report", !.pc = "rd_find", !.dur = duration,
                        !.paused = getPlaybackState.isPaused,
                        !.origin = store.currentVideo.url])
  /\ UNCHANGED <<inRoom, now, store, roomTimers, timeouts, roomPlaybackState,
                 roomSyncIntervals, issued, hist>>
  /\ sent' = {}
  /\ UNCHANGED player

\* the .then callback of handleDurationReport (lines 168-172 when the room
\* was paused at the call, 176-186 otherwise)
ReportCont(p) ==
  /\ p.pc = "rd_find"
  /\ LET room == store
         tm == startVideoTimer(Timers, reportRemaining(room, p.dur, now),
                               room.currentVideo.url)
     IN IF ~room.exists \/ room.currentVideo = NoVideo
        THEN /\ Finish(p)
             /\ UNCHANGED <<roomTimers, timeouts, roomSyncIntervals>>
        ELSE /\ Become(p, [p EXCEPT !.pc = "rd_save", !.base = room, !.at = now,
                                    !.room = [room EXCEPT !.currentVideo.duration = p.dur]])
             /\ IF ~reportRestarts(p.paused)
                THEN UNCHANGED <<roomTimers, timeouts, roomSyncIntervals>>
                ELSE /\ roomTimers' = tm.entry
                     /\ timeouts' = tm.out
                     /\ roomSyncIntervals' = TRUE
  /\ UNCHANGED <<inRoom, now, store, roomPlaybackState, issued, cmds, hist>>
  /\ sent' = {}
  /\ UNCHANGED player

\* ---- skipVideo (socket/index.ts) -------------------------------------------
\* skipVideo up to the answer of its findOne (lines 434-445): a requester who
\* is neither host nor moderator is refused
SkipVideo(userId) ==
  /\ CanCommand
  /\ userId \in inRoom
  /\ store.exists
  /\ isHostOrMod(store, userId)
  /\ cmds' = cmds + 1
  /\ Spawn([Proc EXCEPT !.kind = "skip", !.pc = "skip_got", !.uid = userId,
                        !.origin = store.currentVideo.url])
  /\ UNCHANGED <<inRoom, now, store, roomTimers, timeouts, roomPlaybackState,
                 roomSyncIntervals, issued, hist>>
  /\ sent' = {}
  /\ UNCHANGED player

\* skipVideo after its findOne (lines 447-448): stopVideoTimer, then
\* advanceQueue up to its findOne
SkipCont(p) ==
  /\ p.pc = "skip_got"
  /\ LET tm == stopVideoTimer(Timers)
     IN /\ roomTimers' = tm.entry
        /\ timeouts' = tm.out
  /\ Goto(p, "adv_find")
  /\ UNCHANGED <<inRoom, now, store, roomPlaybackState, roomSyncIntervals, issued, cmds, hist>>
  /\ sent' = {}
  /\ UNCHANGED player

\* ---- mediaUpdate (socket/index.ts, timerService.handleHostMediaUpdate) ------
\* the mediaUpdate handler up to handleHostMediaUpdate's findOne (lines
\* 587-601, 73); a sender who is neither host nor moderator is ignored
MediaUpdate(userId, currentTime, paused) ==
  /\ CanCommand
  /\ userId \in inRoom
  /\ store.exists
  /\ isHostOrMod(store, userId)
  /\ cmds' = cmds + 1
  /\ Spawn([Proc EXCEPT !.kind = "media", !.pc = "hmu_find", !.uid = userId,
                        !.currentTime = currentTime, !.paused = paused,
                        !.origin = store.currentVideo.url])
  /\ UNCHANGED <<inRoom, now, store, roomTimers, timeouts, roomPlaybackState,
                 roomSyncIntervals, issued, hist>>
  /\ sent' = {}
  /\ UNCHANGED player

\* handleHostMediaUpdate from the answer of its findOne (lines 73-84, and
\* the broadcast of line 94 when it pauses)
MediaCont(p) ==
  /\ p.pc = "hmu_find"
  /\ LET room == store
         tm == stopVideoTimer(Timers)
     IN IF ~room.exists \/ room.currentVideo = NoVideo
        THEN /\ Finish(p)
             /\ sent' = {}
             /\ UNCHANGED <<roomTimers, timeouts, roomPlaybackState>>
        ELSE IF p.paused
        THEN /\ roomPlaybackState' = [present |-> TRUE, isPaused |-> TRUE,
                                      pausedAt |-> p.currentTime]
             /\ roomTimers' = tm.entry
             /\ timeouts' = tm.out
             /\ sent' = {Emit("mediaUpdate", ToRoom,
                               [currentTime |-> p.currentTime, paused |-> p.paused])}
             /\ Finish(p)
        ELSE /\ Become(p, [p EXCEPT !.pc = "hmu_save", !.base = room, !.at = now,
                                    !.room = [room EXCEPT !.currentVideo.startedAt =
                                                             now - p.currentTime]])
             /\ sent' = {}
             /\ UNCHANGED <<roomTimers, timeouts, roomPlaybackState>>
  /\ UNCHANGED <<inRoom, now, store, roomSyncIntervals, issued, cmds, hist>>
  /\ UNCHANGED player

\* handleHostMediaUpdate after its save (lines 85-94)
MediaSaved(p) ==
  /\ p.pc = "hmu_saved"
  /\ LET tm == startVideoTimer(stopVideoTimer(Timers),
                               mediaRemaining(p.room, p.currentTime),
                               p.room.currentVideo.url)
     IN /\ roomPlaybackState' = [present |-> TRUE, isPaused |-> FALSE, pausedAt |-> 0]
        /\ roomTimers' = tm.entry
        /\ timeouts' = tm.out
  /\ sent' = {Emit("mediaUpdate", ToRoom,
                    [currentTime |-> p.currentTime, paused |-> p.paused])}
  /\ Finish(p)
  /\ UNCHANGED <<inRoom, now, store, roomSyncIntervals, issued, cmds, hist>>
  /\ UNCHANGED player

\* ---- removeVideo (socket/index.ts) ------------------------------------------
\* removeVideo up to room.save() (lines 453-473): refused for a requester who
\* is neither host nor moderator and for an index outside the queue
RemoveVideo(userId, videoIndex) ==
  /\ CanCommand
  /\ userId \in inRoom
  /\ store.exists
  /\ cmds' = cmds + 1
  /\ IF ~isHostOrMod(store, userId)
     THEN /\ sent' = {Emit("error", ToSocket(userId),
                            "Only the host or moderators can remove videos")}
          /\ UNCHANGED procs
          /\ Refuse("removeVideo", userId)
     ELSE IF videoIndex < 0 \/ videoIndex >= Len(store.queue)
     THEN /\ sent' = {Emit("error", ToSocket(userId), "Invalid video index")}
          /\ UNCHANGED procs
          /\ Refuse("removeVideo", userId)
     ELSE /\ UNCHANGED hist
          /\ sent' = {}
          /\ Spawn([Proc EXCEPT !.kind = "remove", !.pc = "rm_save", !.uid = userId,
                                !.base = store, !.idx = videoIndex,
                                !.room = removeVideoDoc(store, videoIndex)])
  /\ UNCHANGED <<inRoom, now, store, roomTimers, timeouts, roomPlaybackState,
                 roomSyncIntervals, issued>>
  /\ UNCHANGED player

\* ---- refused commands (socket/index.ts) ------------------------------------
\* skipVideo of a requester who is neither host nor moderator (lines 442-445)
SkipVideoDenied(userId) ==
  /\ CanCommand
  /\ userId \in inRoom
  /\ store.exists
  /\ ~isHostOrMod(store, userId)
  /\ cmds' = cmds + 1
  /\ Refuse("skipVideo", userId)
  /\ sent' = {Emit("error", ToSocket(userId), "Only the host or moderators can skip videos")}
  /\ UNCHANGED <<inRoom, now, store, roomTimers, timeouts, roomPlaybackState,
                 roomSyncIntervals, procs, issued>>
  /\ UNCHANGED player

\* mediaUpdate of a sender who is neither host nor moderator (line 596):
\* the handler returns without an answer
MediaUpdateIgnored(userId, currentTime, paused) ==
  /\ CanCommand
  /\ userId \in inRoom
  /\ store.exists
  /\ ~isHostOrMod(store, userId)
  /\ cmds' = cmds + 1
  /\ Refuse("mediaUpdate", userId)
  /\ sent' = {}
  /\ UNCHANGED <<inRoom, now, store, roomTimers, timeouts, roomPlaybackState,
                 roomSyncIntervals, procs, issued>>
  /\ UNCHANGED player

\* ---- removeUser (socket/index.ts, lines 479-520) ----------------------------
\* removeUser that lets a moderator remove another moderator
removeUserErrorNoRank(room, requesterId, targetUserId) ==
  LET isRequesterHost == room.creatorId = requesterId
  IN IF ~isHostOrMod(room, requesterId)
     THEN "Only the host or moderators can remove users"
     ELSE IF targetUserId = room.creatorId /\ ~isRequesterHost
     THEN "Moderators cannot kick the host"
     ELSE ""

\* the checks of removeUser (lines 487-502): the error it answers with, or
\* the empty string when it goes on
removeUserError(room, requesterId, targetUserId) ==
  LET isRequesterHost == room.creatorId = requesterId
  IN IF ~isHostOrMod(room, requesterId)
     THEN "Only the host or moderators can remove users"
     ELSE IF targetUserId = room.creatorId /\ ~isRequesterHost
     THEN "Moderators cannot kick the host"
     ELSE IF targetUserId \in Members(room.moderators) /\ ~isRequesterHost
     THEN "Only the host can remove moderators"
     ELSE ""

\* the handler: after the checks the target's sockets get 'kicked' and
\* leave the room, and 'userLeft' goes to the sockets that remain (lines
\* 504-517); the persisted room is not changed
RemoveUser(requesterId, targetUserId) ==
  /\ CanCommand
  /\ requesterId \in inRoom
  /\ store.exists
  /\ cmds' = cmds + 1
  /\ LET error == removeUserError(store, requesterId, targetUserId)
     IN IF error # ""
        THEN /\ sent' = {Emit("error", ToSocket(requesterId), error)}
             /\ UNCHANGED inRoom
             /\ Refuse("removeUser", requesterId)
        ELSE /\ UNCHANGED hist
             /\ inRoom' = inRoom \ {targetUserId}
             /\ sent' = {Emit("kicked", ToSocket(u), "You have been removed from the room") :
                            u \in {targetUserId} \cap inRoom}
                        \cup {Emit("userLeft", inRoom \ {targetUserId}, targetUserId)}
  /\ UNCHANGED <<now, store, roomTimers, timeouts, roomPlaybackState,
                 roomSyncIntervals, procs, issued>>
  /\ UNCHANGED player

\* ---- togglePrivacy (socket/index.ts, lines 523-550, up to room.save()) ------
\* togglePrivacy that asks for no password
togglePrivacyErrorNoPassword(room, userId, isPrivate, password) ==
  IF room.creatorId # userId
  THEN "Only the room host can change room privacy"
  ELSE ""

\* the checks of togglePrivacy (lines 531-541): the error it answers with,
\* or the empty string when it goes on
togglePrivacyError(room, userId, isPrivate, password) ==
  IF room.creatorId # userId
  THEN "Only the room host can change room privacy"
  ELSE IF isPrivate /\ password = ""
  THEN "A password is required to make the room private"
  ELSE ""

TogglePrivacy(userId, isPrivate, password) ==
  /\ CanCommand
  /\ userId \in inRoom
  /\ store.exists
  /\ cmds' = cmds + 1
  /\ LET error == togglePrivacyError(store, userId, isPrivate, password)
     IN IF error # ""
        THEN /\ sent' = {Emit("error", ToSocket(userId), error)}
             /\ UNCHANGED procs
             /\ Refuse("togglePrivacy", userId)
        ELSE /\ UNCHANGED hist
             /\ sent' = {}
             /\ Spawn([Proc EXCEPT !.kind = "privacy", !.pc = "tp_save", !.uid = userId,
                                   !.base = store,
                                   !.room = togglePrivacyDoc(store, isPrivate, password)])
  /\ UNCHANGED <<inRoom, now, store, roomTimers, timeouts, roomPlaybackState,
                 roomSyncIntervals, issued>>
  /\ UNCHANGED player

\* ---- deleteRoom (socket/index.ts, lines 556-581) ----------------------------
\* deleteRoom up to Room.deleteOne (lines 556-578)
DeleteRoom(userId) ==
  /\ CanCommand
  /\ userId \in inRoom
  /\ store.exists
  /\ cmds' = cmds + 1
  /\ IF store.creatorId # userId
     THEN /\ sent' = {Emit("error", ToSocket(userId),
                            "Only the room host can delete the room")}
          /\ UNCHANGED <<inRoom, roomTimers, timeouts, procs>>
          /\ Refuse("deleteRoom", userId)
     ELSE /\ UNCHANGED hist
          /\ sent' = {Emit("roomDeleted", ToRoom, "This room has been deleted by the host")}
          /\ inRoom' = {}
          /\ LET tm == stopVideoTimer(Timers)
             IN /\ roomTimers' = tm.entry
                /\ timeouts' = tm.out
          /\ Spawn([Proc EXCEPT !.kind = "delete", !.pc = "del_write", !.uid = userId,
                                !.base = store])
  /\ UNCHANGED <<now, store, roomPlaybackState, roomSyncIntervals, issued>>
  /\ UNCHANGED player

\* Room.deleteOne reaches the store (line 579)
DbDelete(p) ==
  /\ p.pc = "del_write"
  /\ store' = NoRoom
  /\ Finish(p)
  /\ sent' = {}
  /\ UNCHANGED <<inRoom, now, roomTimers, timeouts, roomPlaybackState,
                 roomSyncIntervals, issued, cmds, hist>>
  /\ UNCHANGED player

\* ---- promoteMod, demoteMod (socket/index.ts, up to room.save()) -------------
\* promoteMod that does not look whether the target is the host
promoteModErrorNoHost(room, requesterId, targetUserId) ==
  IF room.creatorId # requesterId
  THEN "Only the room host can promote moderators"
  ELSE IF targetUserId \in Members(room.moderators)
  THEN "User is already a moderator"
  ELSE ""

\* the checks of promoteMod (lines 612-626): the error it answers with, or
\* the empty string when it goes on
promoteModError(room, requesterId, targetUserId) ==
  IF room.creatorId # requesterId
  THEN "Only the room host can promote moderators"
  ELSE IF targetUserId = room.creatorId
  THEN "The host is already the owner"
  ELSE IF targetUserId \in Members(room.moderators)
  THEN "User is already a moderator"
  ELSE ""

\* promoteMod, lines 605-629
PromoteMod(requesterId, targetUserId) ==
  /\ CanCommand
  /\ requesterId \in inRoom
  /\ store.exists
  /\ cmds' = cmds + 1
  /\ LET error == promoteModError(store, requesterId, targetUserId)
     IN IF error # ""
        THEN /\ sent' = {Emit("error", ToSocket(requesterId), error)}
             /\ UNCHANGED procs
             /\ Refuse("promoteMod", requesterId)
        ELSE /\ UNCHANGED hist
             /\ sent' = {}
             /\ Spawn([Proc EXCEPT !.kind = "promote", !.pc = "pm_save", !.uid = requesterId,
                                   !.target = targetUserId, !.base = store,
                                   !.room = promoteDoc(store, targetUserId)])
  /\ UNCHANGED <<inRoom, now, store, roomTimers, timeouts, roomPlaybackState,
                 roomSyncIntervals, issued>>
  /\ UNCHANGED player

\* demoteMod, lines 638-658
DemoteMod(requesterId, targetUserId) ==
  /\ CanCommand
  /\ requesterId \in inRoom
  /\ store.exists
  /\ cmds' = cmds + 1
  /\ IF store.creatorId # requesterId
     THEN /\ sent' = {Emit("error", ToSocket(requesterId),
                            "Only the room host can demote moderators")}
          /\ UNCHANGED procs
          /\ Refuse("demoteMod", requesterId)
     ELSE IF targetUserId \notin Members(store.moderators)
     THEN /\ sent' = {Emit("error", ToSocket(requesterId), "User is not a moderator")}
          /\ UNCHANGED procs
          /\ Refuse("demoteMod", requesterId)
     ELSE /\ UNCHANGED hist
          /\ sent' = {}
          /\ Spawn([Proc EXCEPT !.kind = "demote", !.pc = "dm_save", !.uid = requesterId,
                                !.target = targetUserId, !.base = store,
                                !.room = demoteDoc(store, targetUserId)])
  /\ UNCHANGED <<inRoom, now, store, roomTimers, timeouts, roomPlaybackState,
                 roomSyncIntervals, issued>>
  /\ UNCHANGED player

\* ---- hostPause, hostResume (the split events that preceded mediaUpdate) ------
\* hostPause (socket/index.ts, lines 243-258) up to the findOne of
\* pausePlayback (unnamed/part_001, line 141)
HostPause(userId) ==
  /\ CanCommand
  /\ userId \in inRoom
  /\ store.exists
  /\ cmds' = cmds + 1
  /\ IF ~isHostOrMod(store, userId)
     THEN /\ sent' = {Emit("error", ToSocket(userId),
                            "Only the host or moderators can control playback")}
          /\ UNCHANGED procs
          /\ Refuse("hostPause", userId)
     ELSE /\ UNCHANGED hist
          /\ sent' = {}
          /\ Spawn([Proc EXCEPT !.kind = "pause", !.pc = "pp_find", !.uid = userId,
                                !.origin = store.currentVideo.url])
  /\ UNCHANGED <<inRoom, now, store, roomTimers, timeouts, roomPlaybackState,
                 roomSyncIntervals, issued>>
  /\ UNCHANGED player

\* pausePlayback from the answer of its findOne (part_001, lines 142-150)
PauseCont(p) ==
  /\ p.pc = "pp_find"
  /\ LET room == store
         tm == stopVideoTimer(Timers)
     IN IF ~room.exists \/ room.currentVideo = NoVideo
        THEN /\ sent' = {}
             /\ UNCHANGED <<roomTimers, timeouts, roomPlaybackState>>
        ELSE LET elapsed == now - room.currentVideo.startedAt
             IN /\ roomPlaybackState' = [present |-> TRUE, isPaused |-> TRUE,
                                         pausedAt |-> elapsed]
                /\ roomTimers' = tm.entry
                /\ timeouts' = tm.out
                /\ sent' = {Emit("playbackPause", ToRoom, [pausedAt |-> elapsed])}
  /\ Finish(p)
  /\ UNCHANGED <<inRoom, now, store, roomSyncIntervals, issued, cmds, hist>>
  /\ UNCHANGED player

\* hostResume (socket/index.ts, lines 261-276) up to the findOne of
\* resumePlayback (part_001, lines 157-160), which returns at once when the
\* room is not paused
HostResume(userId) ==
  /\ CanCommand
  /\ userId \in inRoom
  /\ store.exists
  /\ cmds' = cmds + 1
  /\ IF ~isHostOrMod(store, userId)
     THEN /\ sent' = {Emit("error", ToSocket(userId),
                            "Only the host or moderators can control playback")}
          /\ UNCHANGED procs
          /\ Refuse("hostResume", userId)
     ELSE /\ UNCHANGED hist
          /\ sent' = {}
          /\ IF resumeReturns(getPlaybackState)
             THEN UNCHANGED procs
             ELSE Spawn([Proc EXCEPT !.kind = "resume", !.pc = "rp_find", !.uid = userId,
                                     !.pausedAt = getPlaybackState.pausedAt,
                                     !.origin = store.currentVideo.url])
  /\ UNCHANGED <<inRoom, now, store, roomTimers, timeouts, roomPlaybackState,
                 roomSyncIntervals, issued>>
  /\ UNCHANGED player

\* resumePlayback from the answer of its findOne up to room.save()
\* (part_001, lines 160-165)
ResumeCont(p) ==
  /\ p.pc = "rp_find"
  /\ LET room == store
     IN IF ~room.exists \/ room.currentVideo = NoVideo
        THEN Finish(p)
        ELSE Become(p, [p EXCEPT !.pc = "rp_save", !.base = room, !.at = now,
                                 !.room = [room EXCEPT !.currentVideo.startedAt =
                                                          resumeStartedAt(now, p.pausedAt)]])
  /\ sent' = {}
  /\ UNCHANGED <<inRoom, now, store, roomTimers, timeouts, roomPlaybackState,
                 roomSyncIntervals, issued, cmds, hist>>
  /\ UNCHANGED player

\* resumePlayback after its save (part_001, lines 167-174)
ResumeSaved(p) ==
  /\ p.pc = "rp_saved"
  /\ LET remaining == Max(p.room.currentVideo.duration - p.pausedAt, 1)
         tm == startVideoTimer(Timers, remaining, p.room.currentVideo.url)
     IN /\ roomTimers' = tm.entry
        /\ timeouts' = tm.out
  /\ roomPlaybackState' = [present |-> TRUE, isPaused |-> FALSE, pausedAt |-> 0]
  /\ sent' = {Emit("playbackResume", ToRoom, [startedAt |-> p.room.currentVideo.startedAt])}
  /\ Finish(p)
  /\ UNCHANGED <<inRoom, now, store, roomSyncIntervals, issued, cmds, hist>>
  /\ UNCHANGED player

\* ---- the sync interval (timerService.ts) -----------------------------------
\* The callback of setInterval in startSyncInterval (lines 34-43): it reads
\* the playback state and, when the room is paused, broadcasts the paused
\* position; otherwise it awaits findOne.  The interval runs while the
\* room's entry of roomSyncIntervals is set.
SyncInterval ==
  /\ roomSyncIntervals
  /\ CanReceive
  /\ LET state == getPlaybackState
     IN IF state.isPaused
        THEN /\ sent' = {Emit("mediaUpdate", ToRoom,
                               [currentTime |-> state.pausedAt, paused |-> TRUE])}
             /\ UNCHANGED procs
        ELSE /\ sent' = {}
             /\ Spawn([Proc EXCEPT !.kind = "sync", !.pc = "sync_find",
                                   !.paused = FALSE,
                                   !.origin = store.currentVideo.url])
  /\ UNCHANGED <<inRoom, now, store, roomTimers, timeouts, roomPlaybackState,
                 roomSyncIntervals, issued, cmds, hist>>
  /\ UNCHANGED player

\* the callback from the answer of its findOne (lines 43-51): the position
\* since startedAt is broadcast with the paused flag read before the await
SyncCont(p) ==
  /\ p.pc = "sync_find"
  /\ LET room == store
     IN IF ~room.exists \/ room.currentVideo = NoVideo
        THEN sent' = {}
        ELSE sent' = {Emit("mediaUpdate", ToRoom,
                           [currentTime |-> now - room.currentVideo.startedAt,
                            paused |-> p.paused])}
  /\ Finish(p)
  /\ UNCHANGED <<inRoom, now, store, roomTimers, timeouts, roomPlaybackState,
                 roomSyncIntervals, issued, cmds, hist>>
  /\ UNCHANGED player

\* ---- time ---------------------------------------------------------------
\* A second passes.
Tick ==
  /\ now < MaxTime
  /\ procs = EmptyBag
  /\ \A t \in timeouts : t.deadline > now
  /\ now' = now + 1
  /\ UNCHANGED <<inRoom, store, roomTimers, timeouts, roomPlaybackState,
                 roomSyncIntervals, procs, issued, cmds, hist>>
  /\ sent' = {}
  /\ UNCHANGED player

\* ---- the server --------------------------------------------------------------
Next ==
  \/ \E u \in Users : AddVideo(u)
  \/ \E u \in Users, i \in 0..(MaxItems - 1), ty \in VoteTypes : Vote(u, i, ty)
  \/ \E d \in Durations : ReportDuration(d)
  \/ \E u \in Users : SkipVideo(u)
  \/ \E u \in Users, ct \in Positions, pa \in BOOLEAN : MediaUpdate(u, ct, pa)
  \/ \E p \in InFlight : DbWrite(p)
  \/ \E p \in InFlight : AdvanceCont(p)
  \/ \E p \in InFlight : AdvanceDone(p)
  \/ \E p \in InFlight : AddVideoSaved(p)
  \/ \E p \in InFlight : ReportCont(p)
  \/ \E p \in InFlight : SkipCont(p)
  \/ \E p \in InFlight : MediaCont(p)
  \/ \E p \in InFlight : MediaSaved(p)
  \/ \E t \in timeouts : Fire(t)
  \/ Tick

Spec == Init /\ [][Next]_vars

\* the server without votes: playback, timers and the head of the queue
NextPlayback ==
  \/ \E u \in Users : AddVideo(u)
  \/ \E d \in Durations : ReportDuration(d)
  \/ \E u \in Users : SkipVideo(u)
  \/ \E u \in Users, ct \in Positions, pa \in BOOLEAN : MediaUpdate(u, ct, pa)
  \/ \E p \in InFlight : DbWrite(p)
  \/ \E p \in InFlight : AdvanceCont(p)
  \/ \E p \in InFlight : AdvanceDone(p)
  \/ \E p \in InFlight : AddVideoSaved(p)
  \/ \E p \in InFlight : ReportCont(p)
  \/ \E p \in InFlight : SkipCont(p)
  \/ \E p \in InFlight : MediaCont(p)
  \/ \E p \in InFlight : MediaSaved(p)
  \/ \E t \in timeouts : Fire(t)
  \/ Tick

SpecPlayback == Init /\ [][NextPlayback]_vars

\* the queue commands alone: addVideo, vote and skipVideo
NextQueue ==
  \/ \E u \in Users : AddVideo(u)
  \/ \E u \in Users, i \in 0..(MaxItems - 1), ty \in VoteTypes : Vote(u, i, ty)
  \/ \E u \in Users : SkipVideo(u)
  \/ \E p \in InFlight : DbWrite(p)
  \/ \E p \in InFlight : AdvanceCont(p)
  \/ \E p \in InFlight : AdvanceDone(p)
  \/ \E p \in InFlight : AddVideoSaved(p)
  \/ \E p \in InFlight : SkipCont(p)

SpecQueue == Init /\ [][NextQueue]_vars

\* ---- C1 ------------------------------------------------------------------
Other(kind) == IF kind = "fire" THEN "skip" ELSE "fire"

\* C1: when the auto-advance timer of a video X fires and a skipVideo received
\* while X was current is handled concurrently, the two cause one advance
\* between them: once one of them has replaced X, the advanceQueue of the
\* other does not replace the video that followed X.
C1_OneAdvance ==
  \A p \in InFlight :
    (/\ p.kind \in {"fire", "skip"}
     /\ p.pc \in {"adv_save", "adv_saved"}
     /\ p.origin # 0
     /\ [kind |-> Other(p.kind), origin |-> p.origin] \in hist.advanced)
    => p.replaced \in {p.origin, 0}

\* ---- C2 ------------------------------------------------------------------
SavePcs == {"add_save", "adv_save", "vote_save", "hmu_save", "rd_save"}

\* C2: the operations that change a room are serialized: a document on its
\* way to the store was computed from the document that is stored (no write
\* in between is lost when it is applied), and no two advances of the queue
\* in flight popped the head of the same snapshot.
C2_Serialized ==
  /\ \A p \in InFlight : p.pc \in SavePcs => p.base = store
  /\ \A p, q \in InFlight :
       (p.pc = "adv_save" /\ q.pc = "adv_save" /\ p.popped # 0 /\ p.base = q.base)
       => (p = q /\ CopiesIn(p, procs) = 1)

\* ---- C3 ------------------------------------------------------------------
\* C3: a room has at most one outstanding auto-advance timer, the one the
\* roomTimers map records.
C3_OneTimer ==
  /\ Cardinality(timeouts) <= 1
  /\ \A t \in timeouts : t.id = roomTimers

\* a timer was started while another one was outstanding
C3_Witness ==
  /\ \E t \in timeouts : t.cancelled = 1
  /\ Cardinality(timeouts) = 1

\* ---- C4 ------------------------------------------------------------------
\* C4: while the room is paused no auto-advance timer is outstanding.
C4_PausedNoTimer == getPlaybackState.isPaused => timeouts = {}

\* ---- C5 ------------------------------------------------------------------
\* addVideo of the next unused url when the metadata lookup returns the given
\* duration.  The handler takes whatever duration the lookup returns; the
\* lookup of this repository (fetchVideoInfo above) returns 0 for every url,
\* so a positive duration at enqueue arises only with another lookup behind
\* the same interface.
AddVideoResolved(userId, duration) ==
  AddVideoInfo(userId, [fetchVideoInfo(issued + 1) EXCEPT !.duration = duration])

\* addVideo with any lookup result, the timer and the clock; no other command
NextLookup ==
  \/ \E u \in Users, d \in {0} \cup Durations : AddVideoResolved(u, d)
  \/ \E p \in InFlight : DbWrite(p)
  \/ \E p \in InFlight : AdvanceCont(p)
  \/ \E p \in InFlight : AdvanceDone(p)
  \/ \E p \in InFlight : AddVideoSaved(p)
  \/ \E t \in timeouts : Fire(t)
  \/ Tick

\* The store answers every request, the event loop runs every continuation
\* and every due timeout, and time passes; no command has to arrive.
SpecLookup ==
  /\ Init /\ [][NextLookup]_vars
  /\ WF_vars(\E p \in InFlight : DbWrite(p))
  /\ WF_vars(\E p \in InFlight : AdvanceCont(p))
  /\ WF_vars(\E p \in InFlight : AdvanceDone(p))
  /\ WF_vars(\E p \in InFlight : AddVideoSaved(p))
  /\ WF_vars(\E t \in timeouts : Fire(t))
  /\ WF_vars(Tick)

\* one addVideo and no other command has been received
Solo == issued = 1 /\ cmds = 0

C6_FallbackTimer ==
  (/\ procs = EmptyBag
   /\ store.currentVideo # NoVideo
   /\ store.currentVideo.duration = 0
   /\ ~getPlaybackState.isPaused)
  => \E t \in timeouts : t.dur = FALLBACK

\* ---- C7 ------------------------------------------------------------------
\* C7: when the callback of a reportDuration(d), d > 0, received while the
\* room was not paused finds a current video and the room still not paused,
\* it cancels the outstanding timer, schedules the only timer of the room to
\* fire after max(d - computePosition, 1) seconds, and sends to the store the
\* document it loaded with d as the duration of the current video; the store
\* holds that duration once the save is applied.
C7_ReportDuration ==
  [][\A p \in InFlight :
       /\ (/\ ReportCont(p)
           /\ ~p.paused
           /\ ~getPlaybackState.isPaused
           /\ store.exists
           /\ store.currentVideo # NoVideo)
          => /\ \E t \in timeouts' :
                  /\ timeouts' = {t}
                  /\ roomTimers' = t.id
                  /\ t.deadline = now + Max(p.dur - computePosition(store, getPlaybackState, now), 1)
             /\ \E q \in BagToSet(procs') :
                  /\ q.pc = "rd_save"
                  /\ q.room = [store EXCEPT !.currentVideo.duration = p.dur]
       /\ (DbWrite(p) /\ p.pc = "rd_save" /\ SaveOk(p))
          => store'.currentVideo.duration = p.dur
    ]_vars

\* a report at a position of at least one second has replaced a timer, and
\* its save is on the way
C7_Witness ==
  \E p \in InFlight :
    /\ p.pc = "rd_save"
    /\ ~p.paused
    /\ ~getPlaybackState.isPaused
    /\ p.at = now
    /\ now - p.base.currentVideo.startedAt >= 1
    /\ \E t \in timeouts :
         /\ t.cancelled = 1
         /\ t.video = p.base.currentVideo.url
         /\ t.deadline = now + Max(p.dur - (now - p.base.currentVideo.startedAt), 1)

\* ---- C8 ------------------------------------------------------------------
\* C8: advanceQueue on a room whose queue is empty sends to the store a
\* document with currentVideo null and the queue empty, on which a further
\* advance changes nothing; it clears the PlaybackState and the sync
\* interval, the store holds a room with no current video once the save is
\* applied, its queue as it was, and no step of the call schedules or
\* cancels a timer.
C8_AdvanceEmpty ==
  [][\A p \in InFlight :
       /\ (AdvanceCont(p) /\ store.exists /\ store.queue = <<>>)
          => /\ roomPlaybackState' = NoState
             /\ ~roomSyncIntervals'
             /\ timeouts' = timeouts /\ roomTimers' = roomTimers
             /\ \E q \in BagToSet(procs') :
                  /\ q.pc = "adv_save"
                  /\ q.room.currentVideo = NoVideo
                  /\ q.room.queue = <<>>
                  /\ advanceDoc(q.room, now) = q.room
       /\ (DbWrite(p) /\ p.pc = "adv_save" /\ p.popped = 0 /\ SaveOk(p))
          => store'.currentVideo = NoVideo /\ store'.queue = store.queue
       /\ (AdvanceDone(p) /\ p.popped = 0)
          => timeouts' = timeouts /\ roomTimers' = roomTimers /\ store' = store
    ]_vars

\* an advance of a room that was already empty has been saved
C8_Witness ==
  \E p \in InFlight :
    /\ p.pc = "adv_saved"
    /\ p.popped = 0
    /\ p.base.currentVideo = NoVideo
    /\ p.base.queue = <<>>
    /\ store.currentVideo = NoVideo
    /\ store.queue = <<>>
    /\ roomPlaybackState = NoState

\* ---- C9 ------------------------------------------------------------------
\* C9: advanceQueue on a room whose queue is not empty sends to the store a
\* document whose currentVideo has the url, title, duration and addedBy of
\* the head of the queue and startedAt = now, and whose queue is the rest of
\* the queue in order, which the store holds once the save is applied; it
\* clears the PlaybackState; after the save it starts
\* the only timer of the room, for the duration of the item, if that duration
\* is positive, and touches no timer otherwise.
C9_AdvanceNonEmpty ==
  [][\A p \in InFlight :
       /\ (AdvanceCont(p) /\ store.exists /\ store.queue # <<>>)
          => /\ roomPlaybackState' = NoState
             /\ \E q \in BagToSet(procs') :
                  /\ q.pc = "adv_save"
                  /\ q.room.currentVideo.url = store.queue[1].url
                  /\ q.room.currentVideo.title = store.queue[1].title
                  /\ q.room.currentVideo.duration = store.queue[1].duration
                  /\ q.room.currentVideo.addedBy = store.queue[1].addedBy
                  /\ q.room.currentVideo.startedAt = now
                  /\ Len(q.room.queue) = Len(store.queue) - 1
                  /\ \A i \in 1..Len(q.room.queue) : q.room.queue[i] = store.queue[i + 1]
       /\ (DbWrite(p) /\ p.pc = "adv_save" /\ p.popped # 0 /\ SaveOk(p))
          => store'.currentVideo.url = p.popped /\ store'.queue = p.room.queue
       /\ (AdvanceDone(p) /\ p.popped # 0)
          => IF p.room.currentVideo.duration > 0
             THEN \E t \in timeouts' :
                    /\ timeouts' = {t}
                    /\ roomTimers' = t.id
                    /\ t.deadline = now + p.room.currentVideo.duration
             ELSE timeouts' = timeouts /\ roomTimers' = roomTimers
    ]_vars

\* an advance has made the head of a queue of two items current, and the
\* other item is what is left of the queue
C9_Witness ==
  \E p \in InFlight :
    /\ p.pc = "adv_saved"
    /\ p.popped # 0
    /\ Len(p.base.queue) = 2
    /\ store.currentVideo.url = p.popped
    /\ store.currentVideo.startedAt = now
    /\ store.queue = Tail(p.base.queue)

\* ---- C10 -----------------------------------------------------------------
\* C10: no user id is in both the upvotes and the downvotes of an item of the
\* persisted queue.
C10_VotesDisjoint ==
  \A i \in 1..Len(store.queue) :
    Members(store.queue[i].upvotes) \cap Members(store.queue[i].downvotes) = {}

\* a user who had voted an item up votes it down: the id moves from the
\* upvotes to the downvotes
C10_Witness ==
  \E p \in InFlight :
    /\ p.pc = "vote_save"
    /\ p.type = "down"
    /\ p.uid \in Members(p.base.queue[p.idx + 1].upvotes)
    /\ p.uid \in Members(p.room.queue[p.idx + 1].downvotes)
    /\ p.uid \notin Members(p.room.queue[p.idx + 1].upvotes)

\* ---- C11 -----------------------------------------------------------------
\* the number of occurrences of an id in an array
Count(seq, id) == Cardinality({i \in 1..Len(seq) : seq[i] = id})

\* the array of an item a vote of the given type pushes on
Chosen(video, type) == IF type = "up" THEN video.upvotes ELSE video.downvotes

\* C11: a vote by a user whose earlier vote of the same type on the same
\* item is persisted sends to the store an item whose upvotes and downvotes
\* have the members and the sizes they have in the store, with the user's
\* id once in the chosen array.
C11_VoteTwice ==
  [][\A u \in Users, i \in 0..(MaxItems - 1), ty \in VoteTypes :
       (/\ Vote(u, i, ty)
        /\ Count(Chosen(store.queue[i + 1], ty), u) = 1)
       => \E q \in BagToSet(procs') :
            /\ q.pc = "vote_save" /\ q.uid = u /\ q.idx = i /\ q.type = ty
            /\ q.base = store
            /\ Members(q.room.queue[i + 1].upvotes) = Members(store.queue[i + 1].upvotes)
            /\ Members(q.room.queue[i + 1].downvotes) = Members(store.queue[i + 1].downvotes)
            /\ Len(q.room.queue[i + 1].upvotes) = Len(store.queue[i + 1].upvotes)
            /\ Len(q.room.queue[i + 1].downvotes) = Len(store.queue[i + 1].downvotes)
            /\ Count(Chosen(q.room.queue[i + 1], ty), u) = 1
    ]_vars

\* a user's second vote of the same type on an item is on its way to the
\* store, the first one being persisted
C11_Witness ==
  \E p \in InFlight :
    /\ p.pc = "vote_save"
    /\ p.base = store
    /\ Count(Chosen(store.queue[p.idx + 1], p.type), p.uid) = 1
    /\ Count(Chosen(p.room.queue[p.idx + 1], p.type), p.uid) = 1
    /\ Len(Chosen(p.room.queue[p.idx + 1], p.type)) = Len(Chosen(store.queue[p.idx + 1], p.type))

\* ---- C12 -----------------------------------------------------------------
\* the room after n addVideo commands of the owner handled one after another
RECURSIVE Enqueued(_)
Enqueued(n) ==
  IF n = 0 THEN NewRoom ELSE addVideoDoc(Enqueued(n - 1), fetchVideoInfo(n), Owner)

\* a room that plays the first of MaxItems + 1 videos enqueued one after
\* another, the others waiting in the queue; no handler in flight
InitQueued ==
  /\ now = 0
  /\ store = [advanceDoc(Enqueued(MaxItems + 1), 0) EXCEPT !.version = MaxItems + 2]
  /\ roomTimers = 0
  /\ timeouts = {}
  /\ roomPlaybackState = NoState
  /\ roomSyncIntervals = TRUE
  /\ procs = EmptyBag
  /\ issued = MaxItems + 1
  /\ cmds = 0
  /\ hist = [advanced |-> {}, demoted |-> {}, refused |-> {}, unhandled |-> {}, gone |-> Left(store), budget |-> MaxCmds]
  /\ inRoom = Users
  /\ sent = {}
  /\ player = NoPlayer

\* votes, removals and skips on that room
NextFifo ==
  \/ \E u \in Users, i \in 0..(MaxItems - 1), ty \in VoteTypes : Vote(u, i, ty)
  \/ \E u \in Users, i \in 0..MaxItems : RemoveVideo(u, i)
  \/ \E u \in Users : SkipVideo(u)
  \/ \E p \in InFlight : DbWrite(p)
  \/ \E p \in InFlight : AdvanceCont(p)
  \/ \E p \in InFlight : AdvanceDone(p)
  \/ \E p \in InFlight : SkipCont(p)

SpecFifo == InitQueued /\ [][NextFifo]_vars

\* the persisted queue holds the items oldest first (urls are numbered in
\* the order of the addVideo commands), all of them newer than the current video
OldestFirst(room) ==
  /\ \A i, j \in 1..Len(room.queue) : i < j => room.queue[i].url < room.queue[j].url
  /\ room.currentVideo # NoVideo =>
       \A i \in 1..Len(room.queue) : room.currentVideo.url < room.queue[i].url

\* C12: the persisted queue is always in the order of enqueueing; a vote
\* sends to the store a queue of the same length with the same items in the
\* same places, only the vote arrays of the addressed item changed; and the
\* item an advance makes current is the oldest item of the queue.
C12_Fifo ==
  /\ [](store.exists => OldestFirst(store))
  /\ [][\A u \in Users, i \in 0..(MaxItems - 1), ty \in VoteTypes :
          Vote(u, i, ty)
          => \E q \in BagToSet(procs') :
               /\ q.pc = "vote_save" /\ q.uid = u /\ q.idx = i /\ q.type = ty
               /\ q.base = store
               /\ Len(q.room.queue) = Len(store.queue)
               /\ q.room.currentVideo = store.currentVideo
               /\ \A k \in 1..Len(store.queue) :
                    IF k = i + 1
                    THEN [q.room.queue[k] EXCEPT !.upvotes = <<>>, !.downvotes = <<>>]
                         = [store.queue[k] EXCEPT !.upvotes = <<>>, !.downvotes = <<>>]
                    ELSE q.room.queue[k] = store.queue[k]
       ]_vars
  /\ [][\A p \in InFlight :
          (AdvanceCont(p) /\ store.exists /\ store.queue # <<>>)
          => \E q \in BagToSet(procs') :
               /\ q.pc = "adv_save"
               /\ \A k \in 1..Len(store.queue) : q.room.currentVideo.url <= store.queue[k].url
               /\ \A k \in 1..Len(q.room.queue) : q.room.currentVideo.url < q.room.queue[k].url
       ]_vars

\* the newer of two queued items has more upvotes than the older one, and
\* an advance has made the older one current
C12_Witness ==
  \E p \in InFlight :
    /\ p.pc = "adv_saved"
    /\ Len(p.base.queue) = 2
    /\ Len(p.base.queue[2].upvotes) > Len(p.base.queue[1].upvotes)
    /\ store.currentVideo.url = p.base.queue[1].url
    /\ Len(store.queue) = 1
    /\ store.queue[1].url = p.base.queue[2].url

\* ---- roles ---------------------------------------------------------------
\* the moderator arrays that promoteMod commands of the owner lead to
Promoted == {<<>>, <<"u2">>, <<"u2", "u3">>}

\* a room of three users that plays a video, with videos waiting in the
\* queue and moderators already promoted; no handler in flight
InitRoles ==
  /\ now = 0
  /\ \E mods \in Promoted :
       store = [advanceDoc(Enqueued(MaxItems + 1), 0) EXCEPT
                  !.moderators = mods, !.version = MaxItems + 2 + Len(mods)]
  /\ roomTimers = 0
  /\ timeouts = {}
  /\ roomPlaybackState = NoState
  /\ roomSyncIntervals = TRUE
  /\ procs = EmptyBag
  /\ issued = MaxItems + 1
  /\ cmds = 0
  /\ hist = [advanced |-> {}, demoted |-> {}, refused |-> {}, unhandled |-> {}, gone |-> Left(store), budget |-> MaxCmds]
  /\ inRoom = Everyone
  /\ sent = {}
  /\ player = NoPlayer

\* the commands of the moderation handlers, accepted and refused
NextRoles ==
  \/ \E u \in Everyone : SkipVideo(u)
  \/ \E u \in Everyone : SkipVideoDenied(u)
  \/ \E u \in Everyone, i \in 0..MaxItems : RemoveVideo(u, i)
  \/ \E u, t \in Everyone : RemoveUser(u, t)
  \/ \E u \in Everyone, pr \in BOOLEAN, pw \in Passwords : TogglePrivacy(u, pr, pw)
  \/ \E u \in Everyone : DeleteRoom(u)
  \/ \E u \in Everyone, ct \in Positions, pa \in BOOLEAN : MediaUpdate(u, ct, pa)
  \/ \E u \in Everyone, ct \in Positions, pa \in BOOLEAN : MediaUpdateIgnored(u, ct, pa)
  \/ \E u, t \in Everyone : PromoteMod(u, t)
  \/ \E u, t \in Everyone : DemoteMod(u, t)
  \/ \E p \in InFlight : DbWrite(p)
  \/ \E p \in InFlight : DbDelete(p)
  \/ \E p \in InFlight : AdvanceCont(p)
  \/ \E p \in InFlight : AdvanceDone(p)
  \/ \E p \in InFlight : SkipCont(p)
  \/ \E p \in InFlight : MediaCont(p)
  \/ \E p \in InFlight : MediaSaved(p)

SpecRoles == InitRoles /\ [][NextRoles]_vars

\* ---- promotions and demotions ------------------------------------------------
\* the room of InitQueued, with MaxRoleCmds commands to come
InitMods ==
  /\ now = 0
  /\ store = [advanceDoc(Enqueued(MaxItems + 1), 0) EXCEPT !.version = MaxItems + 2]
  /\ roomTimers = 0
  /\ timeouts = {}
  /\ roomPlaybackState = NoState
  /\ roomSyncIntervals = TRUE
  /\ procs = EmptyBag
  /\ issued = MaxItems + 1
  /\ cmds = 0
  /\ hist = [advanced |-> {}, demoted |-> {}, refused |-> {}, unhandled |-> {}, gone |-> Left(store), budget |-> MaxRoleCmds]
  /\ inRoom = Users
  /\ sent = {}
  /\ player = NoPlayer

\* promoteMod, demoteMod and skipVideo
NextMods ==
  \/ \E u, t \in Users : PromoteMod(u, t)
  \/ \E u, t \in Users : DemoteMod(u, t)
  \/ \E u \in Users : SkipVideo(u)
  \/ \E u \in Users : SkipVideoDenied(u)
  \/ \E p \in InFlight : DbWrite(p)
  \/ \E p \in InFlight : AdvanceCont(p)
  \/ \E p \in InFlight : AdvanceDone(p)
  \/ \E p \in InFlight : SkipCont(p)

SpecMods == InitMods /\ [][NextMods]_vars

\* ---- C13 -----------------------------------------------------------------
\* the role the persisted room gives a user, stated without isHostOrMod
IsOwner(room, u) == room.exists /\ u = room.creatorId
IsModerator(room, u) == room.exists /\ \E i \in 1..Len(room.moderators) : room.moderators[i] = u
IsController(room, u) == IsOwner(room, u) \/ IsModerator(room, u)

\* the handling of a mediaUpdate sent by u, accepted or not
MediaUpdateBy(u) ==
  \E ct \in Positions, pa \in BOOLEAN : MediaUpdate(u, ct, pa) \/ MediaUpdateIgnored(u, ct, pa)

\* C13: a mediaUpdate of a user who is neither the owner nor a moderator of
\* the persisted room changes nothing: the document, the playback state and
\* the timer stay as they are, no invocation is left that could change them
\* later, and nothing is emitted, in particular no mediaUpdate.
C13_ViewerMediaUpdate ==
  [][\A u \in Everyone :
       (MediaUpdateBy(u) /\ ~IsController(store, u))
       => /\ UNCHANGED <<store, roomPlaybackState, roomTimers, timeouts, procs, inRoom>>
          /\ sent' = {}
    ]_vars

\* u3, never a controller of the room while it exists, has sent a mediaUpdate
\* to a room that plays a video
C13_Witness ==
  /\ [cmd |-> "mediaUpdate", uid |-> "u3"] \in hist.refused
  /\ store.exists /\ store.currentVideo # NoVideo
  /\ ~IsController(store, "u3")

\* ---- C14 -----------------------------------------------------------------
\* the mediaUpdate message of an invocation, sent to the sockets in the room
Rebroadcast(p) ==
  [event |-> "mediaUpdate", to |-> inRoom,
   payload |-> [currentTime |-> p.currentTime, paused |-> p.paused]]

\* C14: the mediaUpdate {currentTime, paused} of a controller, handled on a
\* room with a current video.  paused: the playback state becomes paused at
\* currentTime, the room's timer is cancelled and none is started.  Not
\* paused: the document sent to the store has startedAt = now - currentTime
\* and the save stores it; after the save the playback state is not paused,
\* the room's timer is cancelled and a new one is due after
\* max(duration - currentTime, 1) seconds.  In both cases the one message
\* emitted is mediaUpdate with the same currentTime and paused, to every
\* socket in the room, the sender's included.
C14_MediaUpdate ==
  /\ [][\A p \in InFlight :
          (MediaCont(p) /\ store.exists /\ store.currentVideo # NoVideo /\ p.paused)
          => /\ roomPlaybackState' = [present |-> TRUE, isPaused |-> TRUE,
                                      pausedAt |-> p.currentTime]
             /\ roomTimers' = 0
             /\ timeouts' = {t \in timeouts : t.id # roomTimers}
             /\ sent' = {Rebroadcast(p)}
             /\ p.uid \in inRoom => \A m \in sent' : p.uid \in m.to
             /\ store' = store
       ]_vars
  /\ [][\A p \in InFlight :
          (MediaCont(p) /\ store.exists /\ store.currentVideo # NoVideo /\ ~p.paused)
          => \E q \in BagToSet(procs') :
               /\ q.pc = "hmu_save" /\ q.uid = p.uid
               /\ q.currentTime = p.currentTime /\ q.paused = p.paused
               /\ q.room = [store EXCEPT !.currentVideo.startedAt = now - p.currentTime]
       ]_vars
  /\ [][\A p \in InFlight :
          (DbWrite(p) /\ p.pc = "hmu_save" /\ SaveOk(p))
          => store'.currentVideo.startedAt = now - p.currentTime
       ]_vars
  /\ [][\A p \in InFlight :
          MediaSaved(p)
          => /\ roomPlaybackState'.present /\ ~roomPlaybackState'.isPaused
             /\ roomTimers' # 0
             /\ \E t \in timeouts' :
                  /\ t.id = roomTimers'
                  /\ t.deadline = now + Max(p.room.currentVideo.duration - p.currentTime, 1)
                  /\ timeouts' \ {t} = {x \in timeouts : x.id # roomTimers}
             /\ sent' = {Rebroadcast(p)}
             /\ p.uid \in inRoom => \A m \in sent' : p.uid \in m.to
       ]_vars

\* a controller's mediaUpdate {1, not paused} on a video of duration 2 has
\* been handled to its end: startedAt is one second before now, the timer is
\* due in one second and the message has gone to everyone in the room
C14_Witness ==
  /\ store.exists /\ store.currentVideo # NoVideo
  /\ store.currentVideo.duration = 2
  /\ store.currentVideo.startedAt = now - 1
  /\ roomPlaybackState = [present |-> TRUE, isPaused |-> FALSE, pausedAt |-> 0]
  /\ \E t \in timeouts : t.id = roomTimers /\ t.deadline = now + 1
  /\ sent = {[event |-> "mediaUpdate", to |-> Users,
              payload |-> [currentTime |-> 1, paused |-> FALSE]]}

\* ---- C15 -----------------------------------------------------------------
\* the handling of a privileged command sent by u, accepted or not
PrivilegedBy(u) ==
  \/ SkipVideo(u) \/ SkipVideoDenied(u)
  \/ \E i \in 0..MaxItems : RemoveVideo(u, i)
  \/ \E t \in Everyone : RemoveUser(u, t)
  \/ MediaUpdateBy(u)

\* nothing but an error message to u
OnlyErrorTo(u) == \A m \in sent' : m.event = "error" /\ m.to = {u}

\* C15: once the save of demoteMod(U) is the last saved change of U's role,
\* every skipVideo, removeVideo, removeUser and mediaUpdate of U is refused:
\* the document, the timer, the playback state, the invocations in flight and
\* the sockets in the room stay as they are, and at most an error goes to U.
C15_DemotedIsRefused ==
  [][\A u \in Everyone :
       (PrivilegedBy(u) /\ u \in hist.demoted)
       => /\ UNCHANGED <<store, roomPlaybackState, roomTimers, timeouts, procs, inRoom>>
          /\ OnlyErrorTo(u)
    ]_vars

\* ---- C16 -----------------------------------------------------------------
\* the handling of an owner-only command sent by u, accepted or not
OwnerOnlyBy(u) ==
  \/ \E pr \in BOOLEAN, pw \in Passwords : TogglePrivacy(u, pr, pw)
  \/ DeleteRoom(u)
  \/ \E t \in Everyone : PromoteMod(u, t) \/ DemoteMod(u, t)

\* the command of u has no effect: the persisted room, the timer, the
\* playback state and the sockets in the room are as before, no invocation is
\* left to change them later, and no message goes to anyone but u
NoEffect(u) ==
  /\ UNCHANGED <<store, roomPlaybackState, roomTimers, timeouts, procs, inRoom>>
  /\ \A m \in sent' : m.to = {u}

\* C16: togglePrivacy, deleteRoom, promoteMod and demoteMod of a user who is
\* not the owner of the persisted room, and skipVideo, removeVideo, removeUser
\* and mediaUpdate of a user who is neither its owner nor one of its
\* moderators, have no effect.
C16_RoleGuards ==
  [][\A u \in Everyone :
       /\ (OwnerOnlyBy(u) /\ ~IsOwner(store, u)) => NoEffect(u)
       /\ (PrivilegedBy(u) /\ ~IsController(store, u)) => NoEffect(u)
    ]_vars

\* the moderator u2 has asked for the deletion of the room and has just got
\* an error; the room is still there, with u2 in it
C16_Witness ==
  /\ [cmd |-> "deleteRoom", uid |-> "u2"] \in hist.refused
  /\ IsModerator(store, "u2")
  /\ "u2" \in inRoom
  /\ sent = {[event |-> "error", to |-> {"u2"},
              payload |-> "Only the room host can delete the room"]}

\* ---- C17 -----------------------------------------------------------------
\* C17: removeUser of a moderator whose target is the owner or a moderator
\* (itself included) has no effect but an error to the requester.  removeUser
\* of the owner whose target is a moderator in the room takes the target out
\* of the room, sends 'kicked' to the target and 'userLeft' to the sockets
\* that remain, and changes nothing else; the persisted room, its moderators
\* included, stays as it is.
C17_KickRanks ==
  [][\A u, t \in Everyone :
       RemoveUser(u, t) =>
         /\ (IsModerator(store, u) /\ ~IsOwner(store, u) /\ IsController(store, t))
            => /\ NoEffect(u)
               /\ \E m \in sent' : m.event = "error"
         /\ (IsOwner(store, u) /\ IsModerator(store, t) /\ t \in inRoom)
            => /\ inRoom' = inRoom \ {t}
               /\ sent' = {[event |-> "kicked", to |-> {t},
                            payload |-> "You have been removed from the room"],
                           [event |-> "userLeft", to |-> inRoom \ {t}, payload |-> t]}
               /\ UNCHANGED <<store, roomPlaybackState, roomTimers, timeouts, procs>>
    ]_vars

\* the moderator u2 has asked for the removal of the moderator u3 and got an
\* error, and then the owner has removed u3 from the room
C17_Witness ==
  /\ [cmd |-> "removeUser", uid |-> "u2"] \in hist.refused
  /\ IsModerator(store, "u2") /\ IsModerator(store, "u3")
  /\ inRoom = {"u1", "u2"}
  /\ \E m \in sent : m.event = "kicked" /\ m.to = {"u3"}
  /\ \E m \in sent : m.event = "userLeft" /\ m.to = {"u1", "u2"}

\* ---- C18 -----------------------------------------------------------------
\* C18: the owner of the persisted room is never one of its moderators; and
\* a promoteMod whose target is the owner, or a user the persisted room lists
\* as a moderator, is answered with an error and has no effect: the
\* moderators stay as they are and no save is on its way.
C18_OwnerNotModerator ==
  /\ [](store.exists => ~IsModerator(store, store.creatorId))
  /\ [][\A u, t \in Everyone :
          (PromoteMod(u, t) /\ (IsOwner(store, t) \/ IsModerator(store, t)))
          => /\ NoEffect(u)
             /\ \E m \in sent' : m.event = "error"
       ]_vars

\* u2 is a moderator of the persisted room, and the owner's promoteMod of
\* u2 has just been refused
C18_Witness ==
  /\ procs = EmptyBag
  /\ store.moderators = <<"u2">>
  /\ [cmd |-> "promoteMod", uid |-> Owner] \in hist.refused
  /\ sent = {[event |-> "error", to |-> {Owner}, payload |-> "User is already a moderator"]}

\* ---- C19 -----------------------------------------------------------------
\* C19: togglePrivacy(true) of the owner with a missing or empty password is
\* answered with an error to the owner and nothing else: isPrivate and the
\* stored hash stay as they are, no save is on its way and privacyUpdated is
\* not emitted.
C19_PrivateNeedsPassword ==
  [][\A u \in Everyone :
       (TogglePrivacy(u, TRUE, "") /\ IsOwner(store, u))
       => /\ store'.isPrivate = store.isPrivate
          /\ store'.password = store.password
          /\ NoEffect(u)
          /\ sent' = {[event |-> "error", to |-> {u},
                       payload |-> "A password is required to make the room private"]}
    ]_vars

\* the room has been made private with the password "pw", and the owner's
\* togglePrivacy(true) without a password has just been refused
C19_Witness ==
  /\ store.isPrivate
  /\ store.password = bcryptHash("pw")
  /\ procs = EmptyBag
  /\ [cmd |-> "togglePrivacy", uid |-> Owner] \in hist.refused
  /\ sent = {[event |-> "error", to |-> {Owner},
              payload |-> "A password is required to make the room private"]}

\* ---- C20 -----------------------------------------------------------------
\* hostPause and hostResume on a room that plays a video, the timer and the clock
NextPause ==
  \/ \E u \in Users : HostPause(u)
  \/ \E u \in Users : HostResume(u)
  \/ \E p \in InFlight : PauseCont(p)
  \/ \E p \in InFlight : ResumeCont(p)
  \/ \E p \in InFlight : ResumeSaved(p)
  \/ \E p \in InFlight : DbWrite(p)
  \/ \E p \in InFlight : AdvanceCont(p)
  \/ \E p \in InFlight : AdvanceDone(p)
  \/ \E t \in timeouts : Fire(t)
  \/ Tick

SpecPause == InitQueued /\ [][NextPause]_vars

NextSync ==
  \/ \E u \in Users : AddVideo(u)
  \/ \E u \in Users, i \in 0..(MaxItems - 1), ty \in VoteTypes : Vote(u, i, ty)
  \/ \E u \in Users, i \in 0..MaxItems : RemoveVideo(u, i)
  \/ \E d \in Durations : ReportDuration(d)
  \/ \E u \in Users : SkipVideo(u)
  \/ \E u \in Users, ct \in Positions, pa \in BOOLEAN : MediaUpdate(u, ct, pa)
  \/ \E u \in Users : DeleteRoom(u)
  \/ SyncInterval
  \/ \E p \in InFlight : SyncCont(p)
  \/ \E p \in InFlight : DbWrite(p)
  \/ \E p \in InFlight : DbDelete(p)
  \/ \E p \in InFlight : AdvanceCont(p)
  \/ \E p \in InFlight : AdvanceDone(p)
  \/ \E p \in InFlight : AddVideoSaved(p)
  \/ \E p \in InFlight : ReportCont(p)
  \/ \E p \in InFlight : SkipCont(p)
  \/ \E p \in InFlight : MediaCont(p)
  \/ \E p \in InFlight : MediaSaved(p)
  \/ \E t \in timeouts : Fire(t)
  \/ Tick

\* a room that plays the one video that was enqueued, its sync interval
\* running; no handler in flight
InitPlaying ==
  /\ now = 0
  /\ store = [advanceDoc(Enqueued(1), 0) EXCEPT !.version = 2]
  /\ roomTimers = 0
  /\ timeouts = {}
  /\ roomPlaybackState = NoState
  /\ roomSyncIntervals = TRUE
  /\ procs = EmptyBag
  /\ issued = 1
  /\ cmds = 0
  /\ hist = [advanced |-> {}, demoted |-> {}, refused |-> {}, unhandled |-> {}, gone |-> Left(store), budget |-> MaxCmds]
  /\ inRoom = Users
  /\ sent = {}
  /\ player = NoPlayer

SpecSync == InitPlaying /\ [][NextSync]_vars

\* the save of a handleHostMediaUpdate reaches the store: the seek or the
\* resume a controller asked for takes effect
ExplicitSeek == \E p \in InFlight : p.pc = "hmu_save" /\ DbWrite(p)

\* C21: while the room plays a video and is not paused, the position
\* now - startedAt of that video never decreases in a step other than the
\* save of a controller's mediaUpdate: not when a reportDuration, a vote, an
\* addVideo or a removeVideo is handled or saved, not when the sync interval
\* runs, not when time passes.
C21_PositionMonotonic ==
  [][(/\ store.exists /\ store.currentVideo # NoVideo
      /\ store'.exists /\ store'.currentVideo.url = store.currentVideo.url
      /\ ~roomPlaybackState.isPaused /\ ~roomPlaybackState'.isPaused
      /\ ~ExplicitSeek)
     => computePosition(store', roomPlaybackState', now')
          >= computePosition(store, roomPlaybackState, now)
    ]_vars

\* the room plays at a position of at least one second that a mediaUpdate
\* has set, and the save of a reportDuration, a vote, an addVideo or a
\* removeVideo that read the room before that seek is on its way
C21_Witness ==
  /\ store.exists /\ store.currentVideo # NoVideo
  /\ ~roomPlaybackState.isPaused
  /\ computePosition(store, roomPlaybackState, now) >= 1
  /\ \E p \in InFlight :
       /\ p.pc \in {"rd_save", "vote_save", "add_save", "rm_save"}
       /\ p.room.currentVideo.url = store.currentVideo.url
       /\ p.room.currentVideo.startedAt > store.currentVideo.startedAt

\* ---- C22 -----------------------------------------------------------------
\* C22: whenever the stored current video has a known duration (> 0), the
\* position the server computes for the room (pausedAt when paused, now -
\* startedAt otherwise) is between 0 and that duration, and so is the
\* currentTime of every mediaUpdate the sync interval broadcasts.
C22_PositionInRange ==
  (store.exists /\ store.currentVideo # NoVideo /\ store.currentVideo.duration > 0)
  => /\ computePosition(store, getPlaybackState, now) \in 0..store.currentVideo.duration
     /\ \A m \in sent :
          m.event = "mediaUpdate"
          => m.payload.currentTime \in 0..store.currentVideo.duration

\* ---- C23 -----------------------------------------------------------------
\* C23: when no handler is in flight, the sync interval of the room runs
\* exactly when the stored room has a current video: it runs while a video
\* is current, and it does not run once the queue has run empty or the room
\* has been deleted.
C23_SyncWhilePlaying ==
  procs = EmptyBag
  => (roomSyncIntervals <=> (store.exists /\ store.currentVideo # NoVideo))

\* ---- C24 -----------------------------------------------------------------
\* C24: once the room has been deleted and no handler is in flight, nothing
\* of the room is left in the server's memory: no auto-advance timer, no
\* PlaybackState entry, no sync interval.
C24_DeleteClearsAll ==
  (~store.exists /\ procs = EmptyBag)
  => /\ roomTimers = 0
     /\ timeouts = {}
     /\ ~roomPlaybackState.present
     /\ ~roomSyncIntervals

\* ---- C25 -----------------------------------------------------------------
\* C25: every rejection by the store of a handler's save is caught inside
\* that handler: no handler ends with a rejection that nothing caught.
C25_FailuresCaught == hist.unhandled = {}

\* ---- VideoPlayer (client, part_005) -----------------------------------------
\* How far off (in seconds) the client can be before it force-seeks
SYNC_ACCURACY == 2

\* the positions of the embedded player and of the server's mediaUpdate
MaxClientTime == 6
ClientTimes == 0..MaxClientTime

Abs(x) == IF x < 0 THEN 0 - x ELSE x

\* seek target that adds the second when the client is behind the server
seekTargetWhenBehind(serverTime, clientTime) ==
  IF serverTime - clientTime > 0 THEN serverTime + 1 ELSE serverTime

\* the mediaSync effect, line 120: const seekTarget = diff < 0 ? serverTime + 1 : serverTime,
\* with diff = serverTime - clientTime
seekTarget(serverTime, clientTime) ==
  IF serverTime - clientTime < 0 THEN serverTime + 1 ELSE serverTime

\* the servers' variables, which the component does not touch
server == <<now, store, roomTimers, timeouts, roomPlaybackState,
            roomSyncIntervals, procs, issued, cmds, hist, inRoom>>

\* the effect on [currentVideo.url, ready] (lines 51-68), with no seekEvent:
\* a player that is ready seeks to the time elapsed since startedAt when
\* that is more than a second.  seekTo moves the position at once.
readyEffect(pl, room, t) ==
  LET elapsed == t - room.currentVideo.startedAt
  IN IF pl.ready /\ room.currentVideo # NoVideo /\ elapsed > 1
     THEN [pl EXCEPT !.isSyncing = TRUE, !.clientTime = elapsed, !.lastProgress = elapsed]
     ELSE pl

\* the effect on [mediaSync, ready, canControl] (lines 91-126): a client
\* that cannot control takes the server's paused state, and seeks when its
\* position is off by more than SYNC_ACCURACY
mediaSyncEffect(pl) ==
  IF pl.mediaSync = NoSync \/ ~pl.ready \/ pl.canControl
  THEN pl
  ELSE LET serverTime == pl.mediaSync.currentTime
           serverPaused == pl.mediaSync.paused
           clientTime == pl.clientTime
           diff == serverTime - clientTime
       IN IF Abs(diff) > SYNC_ACCURACY
          THEN [pl EXCEPT !.paused = serverPaused,
                          !.isSyncing = TRUE,
                          !.clientTime = seekTarget(serverTime, clientTime),
                          !.lastProgress = seekTarget(serverTime, clientTime)]
          ELSE [pl EXCEPT !.paused = serverPaused]

\* onReady of the embedded player (line 196) and the effects that depend
\* on ready, in the order the component declares them
OnReady ==
  /\ ~player.ready
  /\ player' = mediaSyncEffect(readyEffect([player EXCEPT !.ready = TRUE], store, now))
  /\ sent' = {}
  /\ UNCHANGED server

\* a second of playback and the onProgress callback that follows it
\* (progressInterval 1000, handleProgress, lines 154-172); a step of one
\* second never makes a controller's handleProgress call onHostSeek
HandleProgress ==
  /\ player.ready
  /\ ~player.paused
  /\ player.clientTime < MaxClientTime
  /\ player' = [player EXCEPT !.clientTime = @ + 1, !.lastProgress = player.clientTime + 1]
  /\ sent' = {}
  /\ UNCHANGED server

\* the callback of setTimeout(() => { isSyncing.current = false }, 500)
SyncingDone ==
  /\ player.isSyncing
  /\ player' = [player EXCEPT !.isSyncing = FALSE]
  /\ sent' = {}
  /\ UNCHANGED server

\* a mediaUpdate {currentTime, paused} of the server arrives: the hook sets
\* the mediaSync prop and the effect that depends on it runs
MediaSync(serverTime, serverPaused) ==
  /\ player' = mediaSyncEffect([player EXCEPT !.mediaSync =
                                  [currentTime |-> serverTime, paused |-> serverPaused]])
  /\ sent' = {Emit("mediaUpdate", ToRoom,
                    [currentTime |-> serverTime, paused |-> serverPaused])}
  /\ UNCHANGED server

\* a client is in the room that plays a video: it may control or not
InitClient ==
  /\ now = 0
  /\ store = [advanceDoc(Enqueued(1), 0) EXCEPT !.version = 2]
  /\ roomTimers = 0
  /\ timeouts = {}
  /\ roomPlaybackState = NoState
  /\ roomSyncIntervals = TRUE
  /\ procs = EmptyBag
  /\ issued = 1
  /\ cmds = 0
  /\ hist = [advanced |-> {}, demoted |-> {}, refused |-> {}, unhandled |-> {}, gone |-> Left(store), budget |-> MaxCmds]
  /\ inRoom = Users
  /\ sent = {}
  /\ \E c \in BOOLEAN : player = [NoPlayer EXCEPT !.canControl = c]

\* the component, the messages of the server and the clock
NextClient ==
  \/ OnReady
  \/ HandleProgress
  \/ SyncingDone
  \/ \E t \in ClientTimes, pa \in BOOLEAN : MediaSync(t, pa)
  \/ Tick

SpecClient == InitClient /\ [][NextClient]_vars

\* ---- C26 -----------------------------------------------------------------
\* C26 as stated: a client that cannot control and receives a mediaUpdate
\* whose currentTime differs from its position by more than 2 seconds seeks
\* to currentTime + 1 when its position is behind currentTime and to
\* currentTime otherwise; when the difference is at most 2 seconds its
\* position does not change.
C26_SeekAsStated ==
  [][\A t \in ClientTimes, pa \in BOOLEAN :
       (MediaSync(t, pa) /\ player.ready /\ ~player.canControl)
       => IF Abs(t - player.clientTime) > SYNC_ACCURACY
          THEN player'.clientTime = IF player.clientTime < t THEN t + 1 ELSE t
          ELSE player'.clientTime = player.clientTime
    ]_vars

\* C26: a client that cannot control and receives a mediaUpdate whose
\* currentTime differs from its position by more than 2 seconds seeks to
\* currentTime + 1 when its position is ahead of currentTime and to
\* currentTime when it is behind; when the difference is at most 2 seconds
\* its position does not change.
C26_FollowerSeek ==
  [][\A t \in ClientTimes, pa \in BOOLEAN :
       (MediaSync(t, pa) /\ player.ready /\ ~player.canControl)
       => IF Abs(t - player.clientTime) > SYNC_ACCURACY
          THEN player'.clientTime = IF player.clientTime > t THEN t + 1 ELSE t
          ELSE player'.clientTime = player.clientTime
    ]_vars

\* a client whose position was more than 2 seconds ahead has just received
\* a mediaUpdate of the first second and has been moved back to the second
\* second, one second ahead of the server
C26_Witness ==
  /\ player.ready /\ ~player.canControl
  /\ player.mediaSync.currentTime = 1
  /\ player.isSyncing
  /\ player.clientTime = 2
  /\ player.lastProgress = 2
  /\ \E m \in sent : m.event = "mediaUpdate" /\ m.payload.currentTime = 1

\* ---- C27 -----------------------------------------------------------------
\* the commands a pause and a resume of a video of known duration take
MaxPauseCmds == 3

\* hostPause and hostResume on a room that plays a video of which the
\* clients report the duration
InitResume ==
  /\ now = 0
  /\ store = [advanceDoc(Enqueued(MaxItems + 1), 0) EXCEPT !.version = MaxItems + 2]
  /\ roomTimers = 0
  /\ timeouts = {}
  /\ roomPlaybackState = NoState
  /\ roomSyncIntervals = TRUE
  /\ procs = EmptyBag
  /\ issued = MaxItems + 1
  /\ cmds = 0
  /\ hist = [advanced |-> {}, demoted |-> {}, refused |-> {}, unhandled |-> {}, gone |-> Left(store),
             budget |-> MaxPauseCmds]
  /\ inRoom = Users
  /\ sent = {}
  /\ player = NoPlayer

NextResume ==
  \/ \E u \in Users : HostPause(u)
  \/ \E u \in Users : HostResume(u)
  \/ \E d \in Durations : ReportDuration(d)
  \/ \E p \in InFlight : PauseCont(p)
  \/ \E p \in InFlight : ResumeCont(p)
  \/ \E p \in InFlight : ResumeSaved(p)
  \/ \E p \in InFlight : ReportCont(p)
  \/ \E p \in InFlight : DbWrite(p)
  \/ \E p \in InFlight : AdvanceCont(p)
  \/ \E p \in InFlight : AdvanceDone(p)
  \/ \E t \in timeouts : Fire(t)
  \/ Tick

SpecResume == InitResume /\ [][NextResume]_vars

MaxSeek == 3
SeekPositions == (0 - 1)..MaxSeek

\* seekPlayback (unnamed/part_001, line 188):
\* Math.max(0, Math.min(position, room.currentVideo.duration || Infinity))
seekClamp(position, duration) ==
  Max(0, IF duration # 0 /\ duration < position THEN duration ELSE position)

\* a room that plays a video: reportDuration, the mediaUpdate of a
\* controller at any of these positions, the timer, the sync interval and
\* the clock
NextSeek ==
  \/ \E d \in Durations : ReportDuration(d)
  \/ \E u \in Users, ct \in SeekPositions, pa \in BOOLEAN : MediaUpdate(u, ct, pa)
  \/ SyncInterval
  \/ \E p \in InFlight : SyncCont(p)
  \/ \E p \in InFlight : DbWrite(p)
  \/ \E p \in InFlight : AdvanceCont(p)
  \/ \E p \in InFlight : AdvanceDone(p)
  \/ \E p \in InFlight : ReportCont(p)
  \/ \E p \in InFlight : MediaCont(p)
  \/ \E p \in InFlight : MediaSaved(p)
  \/ \E t \in timeouts : Fire(t)
  \/ Tick

SpecSeek == InitPlaying /\ [][NextSeek]_vars

\* C28: the position a controller's mediaUpdate {currentTime: p} asks for
\* is clamped before it is applied: on a paused update the pausedAt that is
\* stored, on a playing update the position now - startedAt that the save
\* stores, and in both cases the currentTime that is broadcast, are
\* max(0, min(p, duration)) when the duration of the current video is known
\* and max(0, p) when it is not.
C28_SeekClamped ==
  /\ [][\A p \in InFlight :
          (MediaCont(p) /\ store.exists /\ store.currentVideo # NoVideo /\ p.paused)
          => /\ roomPlaybackState'.pausedAt
                  = seekClamp(p.currentTime, store.currentVideo.duration)
             /\ \A m \in sent' :
                  m.payload.currentTime = seekClamp(p.currentTime, store.currentVideo.duration)
       ]_vars
  /\ [][\A p \in InFlight :
          (DbWrite(p) /\ p.pc = "hmu_save" /\ SaveOk(p))
          => now - store'.currentVideo.startedAt
               = seekClamp(p.currentTime, p.room.currentVideo.duration)
       ]_vars
  /\ [][\A p \in InFlight :
          MediaSaved(p)
          => \A m \in sent' :
               m.payload.currentTime = seekClamp(p.currentTime, p.room.currentVideo.duration)
       ]_vars

\* ---- C29 -----------------------------------------------------------------
\* C29: the callback of a reportDuration(d) received while the room was
\* paused starts the save of the document it read with d as the duration
\* of the current video and changes nothing else: not the PlaybackState,
\* not the timer, not the sync interval, not the store; its save changes
\* the duration of the stored current video to d and nothing else; and the
\* resume that reads the room after that computes the remaining time from
\* the duration the store holds.
C29_ReportWhilePaused ==
  /\ [][\A p \in InFlight :
          (ReportCont(p) /\ p.paused)
          => /\ roomPlaybackState' = roomPlaybackState
             /\ roomTimers' = roomTimers /\ timeouts' = timeouts
             /\ roomSyncIntervals' = roomSyncIntervals
             /\ store' = store
             /\ (store.exists /\ store.currentVideo # NoVideo)
                => \E q \in BagToSet(procs') :
                     /\ q.pc = "rd_save"
                     /\ q.room = [store EXCEPT !.currentVideo.duration = p.dur]
       ]_vars
  /\ [][\A p \in InFlight :
          (DbWrite(p) /\ p.pc = "rd_save" /\ p.paused /\ SaveOk(p))
          => /\ store' = [store EXCEPT !.currentVideo.duration = p.dur]
             /\ roomPlaybackState' = roomPlaybackState
             /\ roomTimers' = roomTimers /\ timeouts' = timeouts
       ]_vars
  /\ [][\A p \in InFlight :
          (ResumeCont(p) /\ store.exists /\ store.currentVideo # NoVideo)
          => \E q \in BagToSet(procs') :
               q.pc = "rp_save" /\ q.room.currentVideo.duration = store.currentVideo.duration
       ]_vars
  /\ [][\A p \in InFlight :
          ResumeSaved(p)
          => \E t \in timeouts' :
               /\ roomTimers' = t.id
               /\ t.deadline = now + Max(p.room.currentVideo.duration - p.pausedAt, 1)
       ]_vars

\* the room was paused at 1 when a reportDuration(2) was received; its
\* callback has run, the save of the duration 2 is on its way, and the room
\* is still paused at 1 with no timer
C29_Witness ==
  /\ roomPlaybackState.isPaused /\ roomPlaybackState.pausedAt = 1
  /\ timeouts = {} /\ roomTimers = 0
  /\ \E p \in InFlight :
       /\ p.kind = "report" /\ p.pc = "rd_save"
       /\ p.paused
       /\ p.dur = 2
       /\ p.room.currentVideo.duration = 2
       /\ p.base = store

\* ---- C30 -----------------------------------------------------------------
\* the indices a vote or a removeVideo names: before the queue, inside it,
\* beyond it
IndexInputs == (0 - 1)..MaxItems

\* a room that plays a video with MaxItems videos queued: votes and
\* removals at any of these indices, and the skips that shift the queue
NextIndex ==
  \/ \E u \in Users, i \in IndexInputs, ty \in VoteTypes : Vote(u, i, ty)
  \/ \E u \in Users, i \in IndexInputs, ty \in VoteTypes : VoteInvalid(u, i, ty)
  \/ \E u \in Users, i \in IndexInputs : RemoveVideo(u, i)
  \/ \E u \in Users : SkipVideo(u)
  \/ \E p \in InFlight : DbWrite(p)
  \/ \E p \in InFlight : AdvanceCont(p)
  \/ \E p \in InFlight : AdvanceDone(p)
  \/ \E p \in InFlight : SkipCont(p)

SpecIndex == InitQueued /\ [][NextIndex]_vars

\* the queue without its element at the 0-based index i
Without(queue, i) == SubSeq(queue, 1, i) \o SubSeq(queue, i + 2, Len(queue))

\* C30: a vote or a removeVideo whose index is below 0 or not below the
\* length of the queue the handler has just read sends the error "Invalid
\* video index" to the requester alone, starts no save and changes nothing
\* of the stored room.  A vote or a removal that is saved finds the queue
\* as the handler read it: the vote changes only the element at its index,
\* which is still the same video, and the removal takes out exactly the
\* element that was at its index when the handler read the queue.
C30_IndexChecked ==
  /\ [][\A u \in Users, i \in IndexInputs, ty \in VoteTypes :
          ((Vote(u, i, ty) \/ VoteInvalid(u, i, ty))
           /\ (i < 0 \/ i >= Len(store.queue)))
          => /\ sent' = {Emit("error", {u}, "Invalid video index")}
             /\ procs' = procs
             /\ store' = store
       ]_vars
  /\ [][\A u \in Users, i \in IndexInputs :
          (RemoveVideo(u, i) /\ isHostOrMod(store, u)
           /\ (i < 0 \/ i >= Len(store.queue)))
          => /\ sent' = {Emit("error", {u}, "Invalid video index")}
             /\ procs' = procs
             /\ store' = store
       ]_vars
  /\ [][\A p \in InFlight :
          (DbWrite(p) /\ p.pc = "vote_save" /\ SaveOk(p))
          => /\ store.queue = p.base.queue
             /\ Len(store'.queue) = Len(store.queue)
             /\ \A j \in 1..Len(store.queue) :
                  IF j = p.idx + 1
                  THEN store'.queue[j].url = p.base.queue[j].url
                  ELSE store'.queue[j] = store.queue[j]
       ]_vars
  /\ [][\A p \in InFlight :
          (DbWrite(p) /\ p.pc = "rm_save" /\ SaveOk(p))
          => /\ store.queue = p.base.queue
             /\ store'.queue = Without(store.queue, p.idx)
       ]_vars

\* a removal at index 1 read a queue of two videos, a skip has since made
\* the first of them current, and the removal's save, which is still on
\* its way, would now find a queue of one video
C30_Witness ==
  \E p \in InFlight :
    /\ p.pc = "rm_save"
    /\ p.idx = 1
    /\ Len(p.base.queue) = 2
    /\ Len(store.queue) = 1
    /\ store.queue[1] = p.base.queue[2]
    /\ store.currentVideo.url = p.base.queue[1].url

\* ---- C31 -----------------------------------------------------------------
\* a room that plays a video with MaxItems videos queued: removals, the
\* commands that start, stop and restart the timer and set the playback
\* state, the timer and the clock
NextRemove ==
  \/ \E u \in Users, i \in 0..MaxItems : RemoveVideo(u, i)
  \/ \E d \in Durations : ReportDuration(d)
  \/ \E u \in Users, ct \in Positions, pa \in BOOLEAN : MediaUpdate(u, ct, pa)
  \/ \E p \in InFlight : DbWrite(p)
  \/ \E p \in InFlight : ReportCont(p)
  \/ \E p \in InFlight : MediaCont(p)
  \/ \E p \in InFlight : MediaSaved(p)
  \/ \E p \in InFlight : AdvanceCont(p)
  \/ \E p \in InFlight : AdvanceDone(p)
  \/ \E t \in timeouts : Fire(t)
  \/ Tick

SpecRemove == InitQueued /\ [][NextRemove]_vars

\* the invocations of advanceQueue in flight
Advancing(bag) ==
  {p \in BagToSet(bag) : p.pc \in {"adv_find", "adv_save", "adv_saved", "skip_got"}}

\* C31: a removeVideo of a host or moderator at an index inside the queue
\* changes nothing until its save, and its save takes the element at that
\* index out of the stored queue and nothing else: the elements before it
\* stay where they are, the elements after it move up by one in their
\* order, the current video, the other fields of the room, the playback
\* state, the auto-advance timer and the sync interval are as they were,
\* and no advanceQueue is started, at index 0 as at any other.
C31_RemoveOnly ==
  /\ [][\A u \in Users, i \in 0..MaxItems :
          (RemoveVideo(u, i) /\ isHostOrMod(store, u) /\ i < Len(store.queue))
          => /\ store' = store
             /\ UNCHANGED <<roomTimers, timeouts, roomPlaybackState, roomSyncIntervals>>
             /\ Advancing(procs') = Advancing(procs)
       ]_vars
  /\ [][\A p \in InFlight :
          (DbWrite(p) /\ p.pc = "rm_save" /\ SaveOk(p))
          => /\ Len(store'.queue) = Len(store.queue) - 1
             /\ \A j \in 1..Len(store'.queue) :
                  store'.queue[j] = store.queue[IF j <= p.idx THEN j ELSE j + 1]
             /\ store' = [store EXCEPT !.queue = store'.queue, !.version = store'.version]
             /\ UNCHANGED <<roomTimers, timeouts, roomPlaybackState, roomSyncIntervals>>
             /\ procs' = procs (-) SetToBag({p})
       ]_vars

\* the head of a queue of two videos has been removed while the timer of
\* the current video is outstanding: the video that was second is the
\* queue, the current video is the one that played before
C31_Witness ==
  /\ store.exists
  /\ store.currentVideo.url = 1
  /\ Len(store.queue) = 1
  /\ store.queue[1].url = 3
  /\ timeouts # {}
  /\ procs = EmptyBag
  /\ hist.advanced = {}

\* ---- C32 -----------------------------------------------------------------
\* C32: when the advanceQueue a timer's callback started finds no room in
\* the store, it ends there: the store stays without the room, nothing is
\* broadcast (no nowPlaying, no queueUpdated, no error), no timer is
\* scheduled, the playback state and the sync interval are not touched, no
\* rejection is left unhandled, and the invocation is over, so it saves
\* nothing later.
C32_FireWithoutRoom ==
  [][\A p \in InFlight :
       (AdvanceCont(p) /\ p.kind = "fire" /\ ~store.exists)
       => /\ store' = store
          /\ sent' = {}
          /\ UNCHANGED <<roomTimers, timeouts, roomPlaybackState, roomSyncIntervals>>
          /\ hist' = hist
          /\ procs' = procs (-) SetToBag({p})
    ]_vars

\* the timer of the current video has fired, its advanceQueue waits for
\* the answer of findOne, and the room has been deleted in the meantime
C32_Witness ==
  /\ ~store.exists
  /\ \E p \in InFlight :
       /\ p.kind = "fire" /\ p.pc = "adv_find" /\ p.origin = 1
       /\ procs = SetToBag({p})

\* ---- C33 -----------------------------------------------------------------
\* C33: whenever the stored room has no current video and no handler is in
\* flight, no auto-advance timer of the room is outstanding.
C33_EmptyNoTimer ==
  (store.exists /\ store.currentVideo = NoVideo /\ procs = EmptyBag)
  => (timeouts = {} /\ roomTimers = 0)

\* ---- C34 -----------------------------------------------------------------
\* C34: an item that a save has taken out of the stored queue (the shift of
\* an advance, the splice of a removeVideo) is never in the stored queue
\* again, and a video becomes the current video only by leaving the stored
\* queue, so that no item becomes current a second time, whatever the
\* order in which votes, addVideos, removeVideos and advances in flight
\* read the room and save.
C34_ItemsOnce ==
  /\ [](QueueUrls(store) \cap hist.gone = {})
  /\ [][(store'.currentVideo # NoVideo
         /\ store'.currentVideo.url # store.currentVideo.url)
        => /\ store'.currentVideo.url \in QueueUrls(store)
           /\ store'.currentVideo.url \notin QueueUrls(store')
           /\ store'.currentVideo.url \notin hist.gone
      ]_vars

\* two handlers read a queue whose head was item 2; the advance of one has
\* made item 2 the current video, and the other's save, an advance that
\* shifted item 2 too or a vote or removal holding the queue with item 2,
\* is still on its way
C34_Witness ==
  /\ store.exists
  /\ store.currentVideo.url = 2
  /\ 2 \in hist.gone
  /\ \E p \in InFlight :
       /\ p.pc \in {"adv_save", "vote_save", "rm_save"}
       /\ 2 \in QueueUrls(p.base)

\* ---- C35 -----------------------------------------------------------------
\* C35: the current video of a room is replaced or cleared only by the
\* save of an advanceQueue that the video's timer or a skipVideo started,
\* never by the save of an advanceQueue that an addVideo started.
C35_OnlyTimerOrSkip ==
  [][(/\ store.exists /\ store.currentVideo # NoVideo
      /\ store'.exists /\ store'.currentVideo.url # store.currentVideo.url)
     => \E p \in InFlight : p.kind \in {"fire", "skip"} /\ DbWrite(p)
    ]_vars

\* ---- C36 -----------------------------------------------------------------
\* C36: when handleHostMediaUpdate restarts the timer of a video whose
\* duration it read as unknown (0), after a mediaUpdate that is not a
\* pause, the timer is due no sooner than the fallback allows: FALLBACK
\* seconds after the startedAt the handler has stored.
C36_SeekKeepsFallback ==
  [][\A p \in InFlight :
       (MediaSaved(p) /\ p.room.currentVideo.duration = 0)
       => \A t \in timeouts' :
            t.id = roomTimers' => t.deadline >= p.room.currentVideo.startedAt + FALLBACK
    ]_vars

\* ---- C37 -----------------------------------------------------------------
\* the users of the room who are neither its host nor its moderators
MemberUsers == {u \in Users : ~isHostOrMod(store, u)}

\* a room that plays a video, with the commands of its members alone:
\* addVideo, vote, reportDuration (which any socket of the room may send)
\* and the privileged commands that are refused to them
NextMember ==
  \/ \E u \in MemberUsers : AddVideo(u)
  \/ \E u \in MemberUsers, i \in 0..(MaxItems - 1), ty \in VoteTypes : Vote(u, i, ty)
  \/ \E d \in Durations : ReportDuration(d)
  \/ \E u \in MemberUsers : SkipVideoDenied(u)
  \/ \E u \in MemberUsers, ct \in Positions, pa \in BOOLEAN : MediaUpdateIgnored(u, ct, pa)
  \/ \E u \in MemberUsers, i \in 0..MaxItems : RemoveVideo(u, i)
  \/ \E p \in InFlight : DbWrite(p)
  \/ \E p \in InFlight : AdvanceCont(p)
  \/ \E p \in InFlight : AdvanceDone(p)
  \/ \E p \in InFlight : AddVideoSaved(p)
  \/ \E p \in InFlight : ReportCont(p)
  \/ \E t \in timeouts : Fire(t)
  \/ Tick

SpecMember == InitPlaying /\ [][NextMember]_vars

\* C37: when the room's members alone send commands, the stored duration
\* of a current video that is known (positive) does not change while that
\* video is current, and the auto-advance timer outstanding for a video is
\* not replaced by one that is due earlier: it stays, fires, or is
\* replaced by a timer due no sooner.
C37_MembersKeepDuration ==
  /\ [][(/\ store.exists /\ store.currentVideo.duration > 0
         /\ store'.exists /\ store'.currentVideo.url = store.currentVideo.url)
        => store'.currentVideo.duration = store.currentVideo.duration
      ]_vars
  /\ [][\A t \in timeouts :
          \/ t \in timeouts'
          \/ Fire(t)
          \/ \E n \in timeouts' : n.id = roomTimers' /\ n.deadline >= t.deadline
      ]_vars

\* ---- C38 -----------------------------------------------------------------
\* C38: a reportDuration or a mediaUpdate received while a video was
\* current changes nothing when its handler finds another video current:
\* the handler ends there, with no save started, no timer stopped or
\* started, no playback state set and nothing broadcast.
C38_AppliedToItsVideo ==
  [][\A p \in InFlight :
       ((ReportCont(p) \/ MediaCont(p))
        /\ p.origin # 0 /\ store.exists /\ store.currentVideo # NoVideo
        /\ store.currentVideo.url # p.origin)
       => /\ procs' = procs (-) SetToBag({p})
          /\ UNCHANGED <<roomTimers, timeouts, roomPlaybackState, roomSyncIntervals>>
          /\ sent' = {}
    ]_vars

\* ---- C39 -----------------------------------------------------------------
\* C39: once Room.deleteOne has taken the room out of the store, no step
\* brings it back: the saves of the handlers that read the room before the
\* deletion (advanceQueue, vote, addVideo, removeVideo,
\* handleHostMediaUpdate, handleDurationReport) are rejected and leave the
\* store without the room.
C39_DeletedStaysDeleted ==
  [][~store.exists => store' = NoRoom]_vars

\* the room has been deleted while the save of a handler that read it
\* before the deletion is on its way
C39_Witness ==
  /\ ~store.exists
  /\ \E p \in InFlight :
       /\ p.pc \in {"adv_save", "vote_save", "add_save", "rm_save", "hmu_save", "rd_save"}
       /\ p.base.exists
       /\ p.room.exists

\* ---- C40 -----------------------------------------------------------------
\* C40: a mediaUpdate the sync interval broadcasts carries the paused flag
\* of the playback state as it is when the message is emitted: while the
\* room is recorded as paused the interval broadcasts paused = true with
\* the paused position, never paused = false with a position computed
\* from startedAt.
C40_SyncConsistent ==
  [][\A m \in sent' :
       (m.event = "mediaUpdate" /\ (SyncInterval \/ \E p \in InFlight : SyncCont(p)))
       => /\ m.payload.paused = getPlaybackState.isPaused
          /\ m.payload.currentTime = computePosition(store, getPlaybackState, now)
    ]_vars

====
